---------------------------- MODULE Spec2Model ----------------------------
(***************************************************************************)
(* JuhRadial MX: the Qt radial-menu overlay (juhradial-overlay.py), its    *)
(* cursor sources (overlay_cursor.py), its action table                    *)
(* (overlay_actions.py), the settings ConfigManager (settings_config.py)   *)
(* and the callers of the daemon's D-Bus object.                           *)
(*                                                                         *)
(* Real arithmetic of the source (math.hypot, math.atan2, math.cos) is     *)
(* modelled exactly on integer offsets: distances are compared by their    *)
(* squares, and angles by the sixteenth of the circle they fall in, which  *)
(* is decided by comparing squares (tan 22.5 deg = sqrt(2) - 1).           *)
(***************************************************************************)
EXTENDS Integers, Sequences, FiniteSets, TLC

VARIABLES
    menu,          \* the RadialMenu object: its fields, isVisible(), cursor_timer
    Actions,       \* overlay_actions.ACTIONS (ACTIONS is a reserved word)
    RADIAL_PARAMS, \* overlay_actions.RADIAL_PARAMS (None or the theme's radial_params)
    config_file,   \* what ~/.config/juhradial/config.json held when the overlay last read it
    now,           \* time.time(), in ticks of TickMs milliseconds
    effects,       \* what the last handler did to the outside (D-Bus calls, launches)
    raised,        \* an exception escaped the last handler
    event,         \* the last event handled (or, in the one-shot specifications, the input)
    env,           \* the desktop the overlay runs on (overlay_constants) and _monitors_cache
    cfg,           \* ConfigManager.config and the files of a save()
    grab           \* the cursor grabber and the daemon's activation file

vars == <<menu, Actions, RADIAL_PARAMS, config_file, now, effects, raised, event, env, cfg, grab>>

-----------------------------------------------------------------------------
(* Bounds of the model *)

MaxTime == 1
MaxOff == 152
MaxCmdLen == 2
MaxDepth == 3
MaxDoc == 3
DocChunks == 2

\* calls of _discover_computers in one run of the settings window
MaxScans == 2

\* MenuRequested signals, and clicks of the user, in one run of the layer-shell overlay
MaxRequests == 2

\* keys in the path of a get or a set
MaxPath == 3

\* tenths of a second the cursor grabber is followed for
MaxGrabTime == 7

\* slices in a generated config.json
MaxSlices == 3

\* milliseconds a 4 ms sleep can take longer
MaxOversleep == 56

(* Program constants *)

TAP_THRESHOLD_MS == 250
MENU_RADIUS == 150
CENTER_ZONE_RADIUS == 45
RING_INNER == 58
POLL_EXTEND == 60
SUBMENU_RADIUS_EXTEND == 45
SUBITEM_SIZE == 32
SUBMENU_SPREAD == 15
NO_SHOW_DURATION_MS == 1000

\* the model's clock ticks once per tap threshold: a release is in the tick of the show
\* (a tap) or in a later one (a hold)
TickMs == TAP_THRESHOLD_MS

\* None where a time, a position or a dict is expected
NoTime == -1
NoPos == <<>>
NoParams == {}

Abs(n) == IF n < 0 THEN -n ELSE n

-----------------------------------------------------------------------------
(* Hit testing: distance and angle of an offset (dx, dy) from the menu centre *)

\* math.hypot(dx, dy) < r, for an integer r
DistBelow(dx, dy, r) == dx * dx + dy * dy < r * r

\* math.hypot(dx, dy) > r, for an integer r
DistAbove(dx, dy, r) == dx * dx + dy * dy > r * r

\* floor(angle / 45) for angle = degrees(atan2(u, v)) brought into [0, 360):
\* the octant of the direction (u, v), u to the right and v up, clockwise from up
Octant(u, v) ==
    CASE u >= 0 /\ v > 0 /\ u < v    -> 0
      [] u > 0 /\ v > 0 /\ u >= v    -> 1
      [] u > 0 /\ v <= 0 /\ -v < u   -> 2
      [] u > 0 /\ v < 0 /\ -v >= u   -> 3
      [] u <= 0 /\ v < 0 /\ -u < -v  -> 4
      [] u < 0 /\ v < 0 /\ -u >= -v  -> 5
      [] u < 0 /\ v >= 0 /\ v < -u   -> 6
      [] u < 0 /\ v > 0 /\ v >= -u   -> 7
      [] OTHER                       -> 0   \* atan2(0, 0) = 0

\* within its octant, the direction is at least 22.5 degrees past the octant's start:
\* minor/major >= tan 22.5 in an even octant, <= tan 22.5 in an odd one
PastHalf(u, v) ==
    LET a == Abs(u)
        b == Abs(v)
        mj == IF a > b THEN a ELSE b
        mn == IF a > b THEN b ELSE a
        lhs == (mn + mj) * (mn + mj)
        rhs == 2 * mj * mj
    IN  IF Octant(u, v) % 2 = 0 THEN lhs >= rhs /\ mj > 0 ELSE lhs <= rhs

\* floor(angle / 22.5)
Sixteenth(u, v) == 2 * Octant(u, v) + (IF PastHalf(u, v) THEN 1 ELSE 0)

\* the slice with the half-sector shift left out: int(angle / 45) % 8
AngleSliceUnshifted(dx, dy) == (Sixteenth(dx, -dy) \div 2) % 8

\* angle = math.degrees(math.atan2(dx, -dy)); if angle < 0: angle += 360
\* new_slice = int((angle + 22.5) / 45) % 8
AngleSlice(dx, dy) == ((Sixteenth(dx, -dy) + 1) \div 2) % 8


-----------------------------------------------------------------------------
(* Commands.  A command string is modelled as the sequence of its lexical  *)
(* pieces (words, blanks, quotes; single characters for a host index).     *)

Digits == <<"0", "1", "2", "3", "4", "5", "6", "7", "8", "9">>

IsDigit(c) == \E i \in 1..Len(Digits) : Digits[i] = c

DigitValue(c) == (CHOOSE i \in 1..Len(Digits) : Digits[i] = c) - 1

\* str.strip(): leading and trailing blanks removed
RECURSIVE LStrip(_)
LStrip(s) == IF s # <<>> /\ Head(s) = " " THEN LStrip(Tail(s)) ELSE s

RECURSIVE RStrip(_)
RStrip(s) == IF s # <<>> /\ s[Len(s)] = " " THEN RStrip(SubSeq(s, 1, Len(s) - 1)) ELSE s

RECURSIVE DecimalValue(_)
DecimalValue(s) ==
    IF s = <<>> THEN 0 ELSE 10 * DecimalValue(SubSeq(s, 1, Len(s) - 1)) + DigitValue(s[Len(s)])

\* int(cmd): blanks around, an optional sign, then one or more digits; otherwise
\* ValueError.  [ok |-> FALSE] stands for the ValueError.
IntParse(cmd) ==
    LET t == RStrip(LStrip(cmd))
        signed == t # <<>> /\ Head(t) \in {"-", "+"}
        body == IF signed THEN Tail(t) ELSE t
        mag == DecimalValue(body)
    IN  IF body # <<>> /\ \A i \in 1..Len(body) : IsDigit(body[i])
        THEN [ok |-> TRUE, value |-> IF signed /\ Head(t) = "-" THEN -mag ELSE mag]
        ELSE [ok |-> FALSE, value |-> 0]

\* str(host_index) for a host index the code lets through
HostStr(i) == <<Digits[i + 1]>>

\* shlex.split(cmd) raises ValueError ("No closing quotation"): the quotes do not pair up
Unparsable(cmd) == Cardinality({i \in 1..Len(cmd) : cmd[i] = "\""}) % 2 = 1

\* cmd.startswith("-")
StartsWithDash(cmd) == cmd # <<>> /\ Head(cmd) = "-"

-----------------------------------------------------------------------------
(* overlay_actions.py: the action tables *)

SubItem(label, type, cmd) == [label |-> label, type |-> type, cmd |-> cmd]

Action(label, type, cmd, submenu) ==
    [label |-> label, type |-> type, cmd |-> cmd, submenu |-> submenu]

AI_SUBMENU ==
    << SubItem("Claude", "url", <<"https://claude.ai">>),
       SubItem("ChatGPT", "url", <<"https://chat.openai.com">>),
       SubItem("Gemini", "url", <<"https://gemini.google.com">>),
       SubItem("Perplexity", "url", <<"https://perplexity.ai">>) >>

EASY_SWITCH_SUBMENU ==
    << SubItem("Host 1", "easy_switch", <<"0">>),
       SubItem("Host 2", "easy_switch", <<"1">>),
       SubItem("Host 3", "easy_switch", <<"2">>) >>

\* a slice without a submenu carries None, modelled as the empty list (both are falsy)
NoSubmenu == <<>>

DEFAULT_ACTIONS ==
    << Action("Play/Pause", "exec", <<"playerctl", " ", "play-pause">>, NoSubmenu),
       Action("New Note", "exec", <<"kwrite">>, NoSubmenu),
       Action("Lock", "exec", <<"loginctl", " ", "lock-session">>, NoSubmenu),
       Action("Settings", "settings", <<>>, NoSubmenu),
       Action("Screenshot", "exec", <<"spectacle">>, NoSubmenu),
       Action("Emoji", "emoji", <<>>, NoSubmenu),
       Action("Files", "exec", <<"dolphin">>, NoSubmenu),
       Action("AI", "submenu", <<>>, AI_SUBMENU) >>

\* ConfigManager.DEFAULT_CONFIG["radial_menu"]["slices"], the fields the overlay reads
DEFAULT_SLICES ==
    [i \in 1..8 |-> [label |-> DEFAULT_ACTIONS[i].label,
                     type |-> DEFAULT_ACTIONS[i].type,
                     command |-> DEFAULT_ACTIONS[i].cmd]]

\* a config.json document as the overlay reads it.  kind: "missing" (no file),
\* "unreadable" (open fails), "invalid" (not JSON), "list" (JSON, but not an
\* object), "object"
ConfigDoc(kind, slices, easy, theme) ==
    [kind |-> kind, slices |-> slices, easy_switch_shortcuts |-> easy, theme |-> theme]

DEFAULT_THEME == "juhradial-mx"

\* the documents the model puts in config.json
ConfigFiles ==
    { ConfigDoc("missing", <<>>, FALSE, DEFAULT_THEME),
      ConfigDoc("list", <<>>, FALSE, DEFAULT_THEME),
      ConfigDoc("object", DEFAULT_SLICES, TRUE, "3d-blossom"),
      ConfigDoc("object",
                SubSeq([DEFAULT_SLICES EXCEPT ![1].command = <<"sh", " ", "\"">>,
                                              ![4] = [label |-> "Link", type |-> "url",
                                                      command |-> <<"-x">>]], 1, 4),
                FALSE, DEFAULT_THEME) }

\* settings_constants.refresh_translations() is defined without a parameter: a call
\* that passes one raises TypeError
refresh_translations_raises(args) == Len(args) # 0

\* load_actions_from_config(): the defaults unless config.json is an object with
\* slices; with slices it calls settings_constants.refresh_translations(_) inside
\* its try, and "except Exception" gives the defaults
load_actions_from_config(file) ==
    IF file.kind # "object" \/ file.slices = <<>>
    THEN DEFAULT_ACTIONS
    ELSE IF refresh_translations_raises(<<"_">>)
    THEN DEFAULT_ACTIONS
    ELSE [i \in 1..Len(file.slices) |->
            IF file.easy_switch_shortcuts /\ i - 1 = 5
            THEN Action("Easy-Switch", "submenu", file.slices[i].command, EASY_SWITCH_SUBMENU)
            ELSE Action(file.slices[i].label, file.slices[i].type, file.slices[i].command,
                        IF file.slices[i].type = "submenu" THEN AI_SUBMENU ELSE NoSubmenu)]

\* themes.load_theme_name() then get_radial_params(): the 3d themes carry radial_params
\* (ring_inner 58), the vector themes none.  A dict is a set of <<key, value>> pairs
load_radial_params(file) ==
    IF file.kind = "object" /\ file.theme = "3d-blossom"
    THEN {<<"ring_inner", RING_INNER>>}
    ELSE NoParams

\* i18n.get_configured_language() catches JSONDecodeError and OSError only: config.get
\* on a document that is not an object raises AttributeError out of setup_i18n()
setup_i18n_raises(file) == file.kind = "list"


-----------------------------------------------------------------------------
(* juhradial-overlay.py: RadialMenu.  A handler is an operator from the    *)
(* menu record to [m, eff, raised]: the fields after it, what it did to    *)
(* the outside, and whether an exception left it.                          *)

SHADOW_OFFSET == 12
SUBMENU_EXTEND == 80
WINDOW_SIZE == (MENU_RADIUS + SHADOW_OFFSET + SUBMENU_EXTEND) * 2

Max(a, b) == IF a > b THEN a ELSE b
Min(a, b) == IF a < b THEN a ELSE b

Result(m, eff, exc) == [m |-> m, eff |-> eff, raised |-> exc]

\* RadialMenu.__init__
NewMenu ==
    [ highlighted_slice |-> -1, menu_center_x |-> 0, menu_center_y |-> 0,
      submenu_active |-> FALSE, submenu_slice |-> -1, highlighted_subitem |-> -1,
      toggle_mode |-> FALSE, show_time |-> NoTime,
      visible |-> FALSE, timer_active |-> FALSE ]

\* _get_center_radius(): center_radius, else ring_inner, else CENTER_ZONE_RADIUS
DictGet(d, key, default) ==
    IF \E kv \in d : kv[1] = key THEN (CHOOSE kv \in d : kv[1] = key)[2] ELSE default

get_center_radius(params) ==
    DictGet(params, "center_radius", DictGet(params, "ring_inner", CENTER_ZONE_RADIUS))

\* _trigger_haptic(event): the D-Bus call TriggerHaptic(event), which the daemon gets
\* when the QDBusInterface is valid
\* the haptic call with the event of a slice change misnamed
trigger_haptic_misnamed(m, ev) ==
    [op |-> "TriggerHaptic", arg |-> <<IF ev = "slice_change" THEN "slice_changed" ELSE ev>>]

\* _trigger_haptic(event): TriggerHaptic on the daemon (sent when daemon_iface is valid)
trigger_haptic(m, ev) == [op |-> "TriggerHaptic", arg |-> <<ev>>]

Popen(argv) == [op |-> "Popen", arg |-> argv]

\* the words of a command: what shlex.split leaves of it
Argv(cmd) == SelectSeq(cmd, LAMBDA t : t \notin {" ", "\""})

\* the branches "exec" and "url" of _execute_action and _execute_subaction.  launch is
\* what subprocess.Popen does: "ok", or "fail" (OSError, caught by the outer except)
LaunchCommand(type, cmd, launch) ==
    IF type = "exec"
    THEN IF Unparsable(cmd) \/ Argv(cmd) = <<>> \/ launch # "ok" THEN <<>> ELSE <<Popen(Argv(cmd))>>
    ELSE IF StartsWithDash(cmd) \/ launch # "ok" THEN <<>> ELSE <<Popen(<<"xdg-open">> \o cmd)>>

\* _execute_action(action)
execute_action(m, action, launch) ==
    CASE action.type \in {"exec", "url"} ->
            Result(m, LaunchCommand(action.type, action.cmd, launch), FALSE)
      [] action.type = "emoji" ->
            Result(m, IF launch = "ok" THEN <<Popen(<<"emoji">>)>> ELSE <<>>, FALSE)
      [] action.type = "settings" ->
            Result(m, IF launch = "ok" THEN <<Popen(<<"python3", "settings_dashboard.py">>)>>
                      ELSE <<>>, FALSE)
      [] action.type = "submenu" ->
            Result([m EXCEPT !.submenu_active = TRUE,
                             !.submenu_slice = m.highlighted_slice,
                             !.highlighted_subitem = -1], <<>>, FALSE)
      [] OTHER -> Result(m, <<>>, FALSE)

SetHostCall(i) == [op |-> "SetHost", arg |-> HostStr(i)]

\* the "easy_switch" branch with the upper limit of the host index off by one
easy_switch_to_3(m, cmd, gdbus) ==
    LET p == IntParse(cmd)
    IN  IF ~p.ok \/ ~(0 <= p.value /\ p.value <= 3)
        THEN <<trigger_haptic(m, "invalid")>>
        ELSE CASE gdbus = "ok" -> <<[op |-> "SetHost", arg |-> HostStr(p.value)]>>
               [] gdbus \in {"error", "timeout"} ->
                      <<[op |-> "SetHost", arg |-> HostStr(p.value)], trigger_haptic(m, "invalid")>>
               [] OTHER -> <<trigger_haptic(m, "invalid")>>

\* the "easy_switch" branch of _execute_subaction.  gdbus is what the gdbus subprocess
\* does: "ok", "error" (non-zero exit), "timeout", or "exception" (it could not be run)
easy_switch(m, cmd, gdbus) ==
    LET p == IntParse(cmd)
    IN  IF ~p.ok \/ ~(0 <= p.value /\ p.value <= 2)
        THEN <<trigger_haptic(m, "invalid")>>
        ELSE CASE gdbus = "ok" -> <<SetHostCall(p.value)>>
               [] gdbus \in {"error", "timeout"} ->
                      <<SetHostCall(p.value), trigger_haptic(m, "invalid")>>
               [] OTHER -> <<trigger_haptic(m, "invalid")>>

\* _execute_subaction(subitem)
execute_subaction(m, subitem, launch, gdbus) ==
    CASE subitem.type \in {"exec", "url"} ->
            Result(m, LaunchCommand(subitem.type, subitem.cmd, launch), FALSE)
      [] subitem.type = "easy_switch" -> Result(m, easy_switch(m, subitem.cmd, gdbus), FALSE)
      [] OTHER -> Result(m, <<>>, FALSE)

\* ACTIONS[i] raises IndexError when the list has no entry i (i >= 0 wherever it is used)
HasAction(acts, i) == 0 <= i /\ i < Len(acts)

\* the "if execute:" block of _close_menu, on the menu with the timer stopped
close_execute(m, acts, launch, gdbus) ==
    IF m.submenu_active /\ m.highlighted_subitem >= 0
    THEN IF ~HasAction(acts, m.submenu_slice)
         THEN Result(m, <<>>, TRUE)
         ELSE LET submenu == acts[m.submenu_slice + 1].submenu
              IN  IF submenu # <<>> /\ m.highlighted_subitem < Len(submenu)
                  THEN LET r == execute_subaction(m, submenu[m.highlighted_subitem + 1],
                                                  launch, gdbus)
                       IN  Result(r.m, <<trigger_haptic(m, "confirm")>> \o r.eff, r.raised)
                  ELSE Result(m, <<>>, FALSE)
    ELSE IF m.highlighted_slice >= 0
    THEN IF ~HasAction(acts, m.highlighted_slice)
         THEN Result(m, <<>>, TRUE)
         ELSE LET action == acts[m.highlighted_slice + 1]
              IN  IF action.type = "submenu"
                  THEN Result(m, <<>>, FALSE)
                  ELSE LET r == execute_action(m, action, launch)
                       IN  Result(r.m, <<trigger_haptic(m, "confirm")>> \o r.eff, r.raised)
    ELSE Result(m, <<>>, FALSE)

\* the end of _close_menu: the submenu state reset and the window hidden
close_reset(m) ==
    [m EXCEPT !.submenu_active = FALSE, !.submenu_slice = -1,
              !.highlighted_subitem = -1, !.visible = FALSE]

\* _close_menu(execute)
close_menu(m, acts, execute, launch, gdbus) ==
    LET m1 == [m EXCEPT !.timer_active = FALSE, !.toggle_mode = FALSE]
        r == IF execute THEN close_execute(m1, acts, launch, gdbus)
             ELSE Result(m1, <<>>, FALSE)
    IN  IF r.raised THEN r ELSE Result(close_reset(r.m), r.eff, FALSE)


-----------------------------------------------------------------------------
(* Hover: on_cursor_moved, _poll_cursor, mouseMoveEvent *)

\* round(1950 * cos(7.5 deg * j)), j = 0..12: the item positions in tenths of a pixel
Cos1950Table == <<1950, 1933, 1884, 1802, 1689, 1547, 1379, 1187, 975, 746, 505, 255, 0>>

\* 10 * SUBMENU_RADIUS * cos(7.5 deg * k), SUBMENU_RADIUS = MENU_RADIUS + 45
Cos1950(k) ==
    LET j == k % 48
    IN  CASE j <= 12 -> Cos1950Table[j + 1]
          [] j <= 24 -> -Cos1950Table[24 - j + 1]
          [] j <= 36 -> -Cos1950Table[j - 24 + 1]
          [] OTHER   -> Cos1950Table[48 - j + 1]

Sin1950(k) == Cos1950(k + 36)

\* the angle of item i of n around slice sl, in steps of 7.5 degrees:
\* parent_angle = sl * 45 - 90, offset = (i - (n - 1) / 2) * spread, spread = 15
ItemAngle(sl, i, n) == 6 * sl - 12 + 2 * i - (n - 1)

\* math.hypot(dx - item_x, dy - item_y) < SUBITEM_SIZE
OverItem(sl, i, n, dx, dy) ==
    LET ex == 10 * dx - Cos1950(ItemAngle(sl, i, n))
        ey == 10 * dy - Sin1950(ItemAngle(sl, i, n))
    IN  ex * ex + ey * ey < (10 * SUBITEM_SIZE) * (10 * SUBITEM_SIZE)

\* _get_subitem_at_position(dx, dy): the first item the cursor is over, or -1
get_subitem_at_position(m, acts, dx, dy) ==
    IF ~m.submenu_active \/ m.submenu_slice < 0 \/ ~HasAction(acts, m.submenu_slice)
    THEN -1
    ELSE LET submenu == acts[m.submenu_slice + 1].submenu
             n == Len(submenu)
             over == {i \in 0..(n - 1) : OverItem(m.submenu_slice, i, n, dx, dy)}
         IN  IF over = {} THEN -1 ELSE CHOOSE i \in over : \A j \in over : i <= j

\* new_slice of a handler that accepts the cursor up to MENU_RADIUS + extend
SliceAt(params, dx, dy, extend) ==
    IF DistBelow(dx, dy, get_center_radius(params)) \/ DistAbove(dx, dy, MENU_RADIUS + extend)
    THEN -1
    ELSE AngleSlice(dx, dy)

\* the haptic also when the highlight is lost
highlight_any_change(m, new_slice) ==
    IF new_slice # m.highlighted_slice
    THEN Result([m EXCEPT !.highlighted_slice = new_slice],
                <<trigger_haptic(m, "slice_change")>>,
                FALSE)
    ELSE Result(m, <<>>, FALSE)

\* the last block of the three hover handlers: the highlight and its haptic
highlight(m, new_slice) ==
    IF new_slice # m.highlighted_slice
    THEN Result([m EXCEPT !.highlighted_slice = new_slice],
                IF new_slice >= 0 THEN <<trigger_haptic(m, "slice_change")>> ELSE <<>>,
                FALSE)
    ELSE Result(m, <<>>, FALSE)

\* on_cursor_moved(dx, dy)
on_cursor_moved(m, params, dx, dy) == highlight(m, SliceAt(params, dx, dy, 0))

\* the body shared by _poll_cursor and mouseMoveEvent, from the offset (dx, dy)
hover(m, acts, params, dx, dy) ==
    LET new_slice == SliceAt(params, dx, dy, POLL_EXTEND)
        subitem == get_subitem_at_position(m, acts, dx, dy)
        stays == m.submenu_active /\ subitem < 0
                 /\ (new_slice = m.submenu_slice \/ DistAbove(dx, dy, MENU_RADIUS))
        m1 == IF m.submenu_active
              THEN [m EXCEPT !.submenu_active = FALSE, !.submenu_slice = -1,
                             !.highlighted_subitem = -1]
              ELSE m
        opens == new_slice >= 0 /\ new_slice # m1.highlighted_slice
    IN  IF m.submenu_active /\ subitem >= 0
        THEN Result([m EXCEPT !.highlighted_subitem = subitem], <<>>, FALSE)
        ELSE IF stays
        THEN Result([m EXCEPT !.highlighted_subitem = -1], <<>>, FALSE)
        ELSE IF opens /\ ~HasAction(acts, new_slice)
        THEN Result(m1, <<>>, TRUE)
        ELSE LET action == acts[new_slice + 1]
                 m2 == IF opens /\ action.type = "submenu" /\ action.submenu # <<>>
                       THEN [m1 EXCEPT !.submenu_active = TRUE, !.submenu_slice = new_slice,
                                       !.highlighted_subitem = -1]
                       ELSE m1
             IN  highlight(m2, new_slice)

\* _poll_cursor(): the offset of get_cursor_pos() from the menu centre
poll_cursor(m, acts, params, pos) ==
    hover(m, acts, params, pos[1] - m.menu_center_x, pos[2] - m.menu_center_y)

\* mouseMoveEvent(event): the offset of the event's position from the window centre
mouseMoveEvent(m, acts, params, pos) ==
    hover(m, acts, params, pos[1] - WINDOW_SIZE \div 2, pos[2] - WINDOW_SIZE \div 2)

-----------------------------------------------------------------------------
(* on_show, on_hide, mousePressEvent, keyPressEvent *)

\* overlay_cursor.get_monitor_at_cursor(cx, cy) on the cached monitors.  A monitor is
\* [x, y, width, height, scale100, focused]; its logical size is width / scale
LogicalW(mon) == (mon.width * 100) \div mon.scale100
LogicalH(mon) == (mon.height * 100) \div mon.scale100

Contains(mon, cx, cy) ==
    /\ mon.x <= cx /\ (cx - mon.x) * mon.scale100 < mon.width * 100
    /\ mon.y <= cy /\ (cy - mon.y) * mon.scale100 < mon.height * 100

MonRect(mon) == [x |-> mon.x, y |-> mon.y, width |-> LogicalW(mon), height |-> LogicalH(mon)]

FallbackMonitor == [x |-> 0, y |-> 0, width |-> 1920, height |-> 1080]

First(S) == CHOOSE i \in S : \A j \in S : i <= j

get_monitor_at_cursor(cache, cx, cy) ==
    LET hit == {i \in 1..Len(cache) : Contains(cache[i], cx, cy)}
        foc == {i \in 1..Len(cache) : cache[i].focused}
    IN  IF hit # {} THEN MonRect(cache[First(hit)])
        ELSE IF foc # {} THEN MonRect(cache[First(foc)])
        ELSE FallbackMonitor

\* _refresh_monitors(): the answer of Hyprland, or the cache kept when the IPC fails
\* The cache is [loaded, mons]: None is [loaded |-> FALSE]
NoCache == [loaded |-> FALSE, mons |-> <<>>]

refresh_monitors(cache, answer) ==
    IF ~answer.ok THEN [loaded |-> TRUE, mons |-> cache.mons]
    ELSE [loaded |-> TRUE, mons |-> answer.mons]

\* the position on_show uses: the signal's, replaced by each fresh reading that succeeds
fresh_position(e, x, y, fresh) ==
    LET p1 == IF e.IS_HYPRLAND /\ fresh.hyprland # NoPos THEN fresh.hyprland ELSE <<x, y>>
        p2 == IF e.IS_GNOME /\ fresh.gnome # NoPos THEN fresh.gnome ELSE p1
    IN  IF e.IS_COSMIC /\ e.HAS_XWAYLAND /\ fresh.synced # NoPos THEN fresh.synced ELSE p2

\* a clamp that keeps the centre of the window, not the window, inside the monitor
clamp_centre(mon, p) ==
    << Max(mon.x, Min(p[1], mon.x + mon.width)),
       Max(mon.y, Min(p[2], mon.y + mon.height)) >>

\* the clamp of on_show: the window's centre kept half a window inside the monitor
clamp(mon, p) ==
    LET half == WINDOW_SIZE \div 2
    IN  << Max(mon.x + half, Min(p[1], mon.x + mon.width - half)),
           Max(mon.y + half, Min(p[2], mon.y + mon.height - half)) >>

\* on_show(x, y) from the test of the second tap on; acts are the reloaded ACTIONS
on_show(m, acts, e, cache, x, y, fresh, t) ==
    IF m.toggle_mode /\ m.visible
    THEN close_menu(m, acts, FALSE, "ok", "ok")
    ELSE LET p == fresh_position(e, x, y, fresh)
             c == IF e.IS_HYPRLAND THEN clamp(get_monitor_at_cursor(cache.mons, p[1], p[2]), p)
                  ELSE p
             m1 == [m EXCEPT !.menu_center_x = c[1], !.menu_center_y = c[2],
                             !.toggle_mode = FALSE, !.show_time = t,
                             !.submenu_active = FALSE, !.submenu_slice = -1,
                             !.highlighted_subitem = -1, !.highlighted_slice = -1,
                             !.visible = TRUE]
         IN  Result(m1, <<trigger_haptic(m1, "menu_appear")>>, FALSE)

\* duration_ms of on_hide at time t
duration_ms(m, t) ==
    IF m.show_time # NoTime THEN (t - m.show_time) * TickMs ELSE NO_SHOW_DURATION_MS

\* on_hide()
on_hide(m, acts, t, launch, gdbus) ==
    IF duration_ms(m, t) < TAP_THRESHOLD_MS
    THEN Result([m EXCEPT !.toggle_mode = TRUE, !.timer_active = TRUE], <<>>, FALSE)
    ELSE close_menu(m, acts, TRUE, launch, gdbus)

mousePressEvent_any_button(m, acts, button, launch, gdbus) ==
    IF m.toggle_mode
    THEN close_menu(m, acts, TRUE, launch, gdbus)
    ELSE Result(m, <<>>, FALSE)

\* mousePressEvent(event)
mousePressEvent(m, acts, button, launch, gdbus) ==
    IF m.toggle_mode
    THEN close_menu(m, acts, button = "left", launch, gdbus)
    ELSE Result(m, <<>>, FALSE)

\* keyPressEvent(event)
keyPressEvent(m, acts, key) ==
    IF key = "Escape" THEN close_menu(m, acts, FALSE, "ok", "ok") ELSE Result(m, <<>>, FALSE)


-----------------------------------------------------------------------------
(* The overlay process: its events *)

Desktop(h, g, c, x) ==
    [IS_HYPRLAND |-> h, IS_GNOME |-> g, IS_COSMIC |-> c, HAS_XWAYLAND |-> x,
     monitors_cache |-> NoCache]

\* the sessions the model runs the overlay in: KDE on X11, and GNOME
Desktops == { Desktop(FALSE, FALSE, FALSE, TRUE), Desktop(FALSE, TRUE, FALSE, TRUE) }

Monitor(x, y, w, h, scale100, focused) ==
    [x |-> x, y |-> y, width |-> w, height |-> h, scale100 |-> scale100, focused |-> focused]

\* what "j/monitors" answers: nothing (the IPC failed), or two monitors
MonitorAnswers ==
    { [ok |-> FALSE, mons |-> <<>>],
      [ok |-> TRUE, mons |-> << Monitor(0, 0, 1920, 1080, 100, FALSE),
                                Monitor(1920, 0, 2560, 1440, 200, TRUE) >>] }

\* the position a MenuRequested signal carries, and the fresh readings of on_show
SignalPoints == { <<100, 100>> }

FreshPoints == { NoPos, <<2500, 500>> }

\* the readings on_show asks for on desktop e (the others are not taken)
FreshReadings(e) ==
    [hyprland : IF e.IS_HYPRLAND THEN FreshPoints ELSE {NoPos},
     gnome : IF e.IS_GNOME THEN FreshPoints ELSE {NoPos},
     synced : IF e.IS_COSMIC /\ e.HAS_XWAYLAND THEN FreshPoints ELSE {NoPos}]

\* the cursor offsets from the menu centre the hover events carry: the centre, slices
\* 0, 3, 5 and 7, slice 0 beyond MENU_RADIUS, and items of the submenus of slices 7 and 5
SampleOffsets ==
    { <<0, 0>>, <<0, -100>>, <<100, 100>>, <<-100, 100>>, <<-100, -100>>,
      <<0, -170>>, <<-180, -75>>, <<-138, 138>> }

Launches == {"ok", "fail"}
Gdbus == {"ok", "error", "timeout", "exception"}
Buttons == {"left", "right"}
Keys == {"Escape", "Other"}

NoEvent == [name |-> "none"]
NoCfg == [phase |-> "unused"]
NoGrab == [phase |-> "unused"]

\* the overlay starts: the module-level loads of overlay_actions, then RadialMenu()
Init ==
    /\ config_file \in {f \in ConfigFiles : ~setup_i18n_raises(f)}
    /\ Actions = load_actions_from_config(config_file)
    /\ RADIAL_PARAMS = load_radial_params(config_file)
    /\ env \in Desktops
    /\ menu = NewMenu
    /\ now = 0
    /\ effects = <<>>
    /\ raised = FALSE
    /\ event = NoEvent
    /\ cfg = NoCfg
    /\ grab = NoGrab

\* a handler's result taken over into the state
Handled(name, r) ==
    /\ menu' = r.m
    /\ effects' = r.eff
    /\ raised' = r.raised
    /\ event' = [name |-> name]

\* the D-Bus signal MenuRequested(x, y).  config.json holds what the settings dashboard
\* or the user last wrote: any document, at the time on_show reads it
MenuRequested ==
    /\ ~raised
    /\ config_file' \in ConfigFiles
    /\ UNCHANGED <<now, cfg, grab>>
    /\ IF setup_i18n_raises(config_file')
       THEN /\ Handled("on_show", Result(menu, <<>>, TRUE))
            /\ UNCHANGED <<Actions, RADIAL_PARAMS, env>>
       ELSE /\ Actions' = load_actions_from_config(config_file')
            /\ RADIAL_PARAMS' = load_radial_params(config_file')
            /\ \E p \in SignalPoints, fresh \in FreshReadings(env),
                  answer \in MonitorAnswers :
                 LET second_tap == menu.toggle_mode /\ menu.visible
                     cache == IF env.IS_HYPRLAND /\ ~second_tap
                              THEN refresh_monitors(env.monitors_cache, answer)
                              ELSE env.monitors_cache
                 IN  /\ env' = [env EXCEPT !.monitors_cache = cache]
                     /\ Handled("on_show", on_show(menu, Actions', env, cache, p[1], p[2], fresh, now))

\* the D-Bus signal HideMenu()
HideMenu ==
    /\ ~raised
    /\ \E launch \in Launches, gdbus \in Gdbus :
         Handled("on_hide", on_hide(menu, Actions, now, launch, gdbus))
    /\ UNCHANGED <<Actions, RADIAL_PARAMS, config_file, now, env, cfg, grab>>

\* the D-Bus signal CursorMoved(dx, dy)
CursorMoved ==
    /\ ~raised
    /\ \E off \in SampleOffsets :
         Handled("on_cursor_moved", on_cursor_moved(menu, RADIAL_PARAMS, off[1], off[2]))
    /\ UNCHANGED <<Actions, RADIAL_PARAMS, config_file, now, env, cfg, grab>>

\* cursor_timer fires (it runs from a tap until the menu is closed)
PollCursor ==
    /\ ~raised
    /\ menu.timer_active
    /\ \E off \in SampleOffsets :
         Handled("_poll_cursor", poll_cursor(menu, Actions, RADIAL_PARAMS,
                             <<menu.menu_center_x + off[1], menu.menu_center_y + off[2]>>))
    /\ UNCHANGED <<Actions, RADIAL_PARAMS, config_file, now, env, cfg, grab>>

\* Qt delivers a mouse move to the visible window
MouseMove ==
    /\ ~raised
    /\ menu.visible
    /\ \E off \in SampleOffsets :
         Handled("mouseMoveEvent", mouseMoveEvent(menu, Actions, RADIAL_PARAMS,
                                <<WINDOW_SIZE \div 2 + off[1], WINDOW_SIZE \div 2 + off[2]>>))
    /\ UNCHANGED <<Actions, RADIAL_PARAMS, config_file, now, env, cfg, grab>>

\* Qt delivers a press of the given button to the visible window
MousePressed(button) ==
    /\ ~raised
    /\ menu.visible
    /\ \E launch \in Launches, gdbus \in Gdbus :
         Handled(IF button = "left" THEN "mousePressEvent(left)" ELSE "mousePressEvent(other)",
                 mousePressEvent(menu, Actions, button, launch, gdbus))
    /\ UNCHANGED <<Actions, RADIAL_PARAMS, config_file, now, env, cfg, grab>>

MousePress == \E button \in Buttons : MousePressed(button)

\* Qt delivers a key press to the visible window
KeyPress ==
    /\ ~raised
    /\ menu.visible
    /\ \E key \in Keys :
         Handled(IF key = "Escape" THEN "keyPressEvent(Escape)" ELSE "keyPressEvent(other)",
                 keyPressEvent(menu, Actions, key))
    /\ UNCHANGED <<Actions, RADIAL_PARAMS, config_file, now, env, cfg, grab>>

\* time passes
Tick ==
    /\ now < MaxTime
    /\ now' = now + 1
    /\ UNCHANGED <<menu, Actions, RADIAL_PARAMS, config_file, effects, raised, event, env,
                   cfg, grab>>

Next ==
    \/ MenuRequested
    \/ HideMenu
    \/ CursorMoved
    \/ PollCursor
    \/ MouseMove
    \/ MousePress
    \/ KeyPress
    \/ Tick

Spec == Init /\ [][Next]_vars


-----------------------------------------------------------------------------
(* Properties of the overlay (specification Spec) *)

\* the menu is shown and its button has not been released: the next HideMenu is the
\* one of the MenuRequested that showed it
ShownNotReleased == menu.visible /\ ~menu.toggle_mode

\* slice 0..7 is highlighted and is not a submenu slice
NonSubmenuSliceHighlighted ==
    /\ menu.highlighted_slice \in 0..7
    /\ ~(HasAction(Actions, menu.highlighted_slice)
         /\ Actions[menu.highlighted_slice + 1].type = "submenu")

\* eff is what executing the highlighted slice's action does: the confirm haptic, then
\* the launch (which may fail)
RunsHighlightedSlice(eff) ==
    /\ HasAction(Actions, menu.highlighted_slice)
    /\ \E launch \in Launches :
         eff = <<trigger_haptic(menu, "confirm")>>
               \o execute_action(menu, Actions[menu.highlighted_slice + 1], launch).eff

\* eff is what executing the highlighted sub-item does
RunsHighlightedSubitem(eff) ==
    /\ HasAction(Actions, menu.submenu_slice)
    /\ menu.highlighted_subitem < Len(Actions[menu.submenu_slice + 1].submenu)
    /\ \E launch \in Launches, gdbus \in Gdbus :
         eff = <<trigger_haptic(menu, "confirm")>>
               \o execute_subaction(menu,
                     Actions[menu.submenu_slice + 1].submenu[menu.highlighted_subitem + 1],
                     launch, gdbus).eff

SubmenuReset(m) == ~m.submenu_active /\ m.submenu_slice = -1 /\ m.highlighted_subitem = -1

\* C1: when HideMenu arrives for a menu shown by the last MenuRequested, less than
\* TAP_THRESHOLD_MS after the show the overlay enters toggle mode (the menu stays
\* visible, nothing is executed, the cursor timer runs); otherwise the menu is closed,
\* and the action of the highlighted slice is executed when a non-submenu slice 0..7
\* is highlighted.  (Steps in which an exception escapes the handler are the subject
\* of C7 and are left out here.)
C1_TapOrHold ==
    [][ (HideMenu /\ ShownNotReleased /\ ~raised') =>
          IF duration_ms(menu, now) < TAP_THRESHOLD_MS
          THEN /\ menu'.toggle_mode /\ menu'.visible /\ menu'.timer_active
               /\ effects' = <<>>
          ELSE /\ ~menu'.visible
               /\ NonSubmenuSliceHighlighted => RunsHighlightedSlice(effects') ]_vars

\* C2: in toggle mode with the menu visible, a second tap (a MenuRequested, then its
\* HideMenu) closes the menu and executes nothing, whatever is highlighted.  (Steps in
\* which an exception escapes the handler are the subject of C7 and are left out here.)
C2_SecondTapExecutesNothing ==
    [][ /\ (MenuRequested /\ menu.toggle_mode /\ menu.visible /\ ~raised')
           => (~menu'.visible /\ effects' = <<>>)
        /\ (event.name = "on_show" /\ ~menu.visible /\ HideMenu)
           => (~menu'.visible /\ effects' = <<>>) ]_vars

\* C3: in toggle mode a left click closes the menu and executes the highlighted
\* sub-item or slice, a click with another button closes it and executes nothing; a
\* press outside toggle mode changes no state and executes nothing
C3_ClickInToggleMode ==
    [][ /\ (MousePressed("left") /\ menu.toggle_mode)
           => /\ ~menu'.visible /\ ~menu'.toggle_mode
              /\ IF menu.submenu_active /\ menu.highlighted_subitem >= 0
                 THEN RunsHighlightedSubitem(effects')
                 ELSE IF NonSubmenuSliceHighlighted
                 THEN RunsHighlightedSlice(effects')
                 ELSE effects' = <<>>
        /\ (MousePressed("right") /\ menu.toggle_mode)
           => (~menu'.visible /\ ~menu'.toggle_mode /\ effects' = <<>>)
        /\ (MousePress /\ ~menu.toggle_mode)
           => (menu' = menu /\ effects' = <<>>) ]_vars

\* a left click in toggle mode has closed the menu and executed the action of the
\* highlighted slice 5
C3_Witness ==
    /\ event.name = "mousePressEvent(left)"
    /\ ~menu.visible /\ ~menu.toggle_mode
    /\ menu.highlighted_slice = 5
    /\ effects # <<>>
    /\ ~raised

\* the step is a handler that calls _close_menu
CallsCloseMenu ==
    \/ HideMenu /\ duration_ms(menu, now) >= TAP_THRESHOLD_MS
    \/ MousePress /\ menu.toggle_mode
    \/ KeyPress /\ event'.name = "keyPressEvent(Escape)"
    \/ MenuRequested /\ menu.toggle_mode /\ menu.visible
       /\ ~setup_i18n_raises(config_file')

\* C7: no failure escapes a handler: every handler returns normally, and every
\* _close_menu call ends with the menu hidden, toggle mode off and the submenu state
\* reset
C7_NoFailureEscapes ==
    [][ /\ ~raised'
        /\ CallsCloseMenu =>
             (~menu'.visible /\ ~menu'.toggle_mode /\ SubmenuReset(menu')) ]_vars

-----------------------------------------------------------------------------
(* The hit test of on_cursor_moved on its own (specification SpecHit): a shown menu,
   one CursorMoved(dx, dy) for every offset of the square around the menu *)

\* a theme with its own inner ring, and one without radial_params
ThemeParams == { NoParams, {<<"ring_inner", RING_INNER>>} }

ShownMenu ==
    on_show(NewMenu, DEFAULT_ACTIONS, Desktop(FALSE, FALSE, FALSE, TRUE), NoCache,
            100, 100, [hyprland |-> NoPos, gnome |-> NoPos, synced |-> NoPos], 0).m

InitHit ==
    /\ event \in [name : {"offset"}, dx : -MaxOff..MaxOff, dy : -MaxOff..MaxOff]
    /\ RADIAL_PARAMS \in ThemeParams
    /\ menu = ShownMenu
    /\ config_file = ConfigDoc("missing", <<>>, FALSE, DEFAULT_THEME)
    /\ Actions = DEFAULT_ACTIONS
    /\ env = Desktop(FALSE, FALSE, FALSE, TRUE)
    /\ now = 0
    /\ effects = <<>>
    /\ raised = FALSE
    /\ cfg = NoCfg
    /\ grab = NoGrab

\* the daemon's CursorMoved(dx, dy) with the offset drawn
HitTest ==
    /\ event.name = "offset"
    /\ LET r == on_cursor_moved(menu, RADIAL_PARAMS, event.dx, event.dy)
       IN  /\ menu' = r.m
           /\ effects' = r.eff
           /\ raised' = r.raised
    /\ event' = [event EXCEPT !.name = "on_cursor_moved"]
    /\ UNCHANGED <<Actions, RADIAL_PARAMS, config_file, now, env, cfg, grab>>

NextHit == HitTest

SpecHit == InitHit /\ [][NextHit]_vars

Sgn(n) == IF n > 0 THEN 1 ELSE IF n < 0 THEN -1 ELSE 0

\* how far (dx, dy) reaches along the centre line of slice k, slice 0 pointing up and
\* the slices following clockwise 45 degrees apart (y grows downwards on screen); the
\* reach is kept as its signed square, doubled, so that it stays an integer
ReachAlong(k, dx, dy) ==
    LET a == CASE k = 0 -> -dy [] k = 2 -> dx [] k = 4 -> dy [] k = 6 -> -dx
               [] k = 1 -> dx - dy [] k = 3 -> dx + dy [] k = 5 -> dy - dx [] k = 7 -> -dx - dy
    IN  IF k % 2 = 0 THEN Sgn(a) * 2 * a * a ELSE Sgn(a) * a * a

\* the 45-degree sector the direction of (dx, dy) falls in: the slice whose centre
\* line it is nearest to
SectorOf(dx, dy) ==
    CHOOSE k \in 0..7 : \A j \in 0..7 : ReachAlong(k, dx, dy) >= ReachAlong(j, dx, dy)

InRing(params, dx, dy) ==
    LET d2 == dx * dx + dy * dy
        r == get_center_radius(params)
    IN  d2 >= r * r /\ d2 <= MENU_RADIUS * MENU_RADIUS

\* C4: for every offset (dx, dy), on_cursor_moved highlights -1 when the distance is
\* below the centre radius or above MENU_RADIUS, and otherwise the slice 0..7 of the
\* 45-degree sector the direction falls in, slice 0 centred on up, clockwise
C4_SliceOfOffset ==
    event.name = "on_cursor_moved" =>
        menu.highlighted_slice =
            IF InRing(RADIAL_PARAMS, event.dx, event.dy)
            THEN SectorOf(event.dx, event.dy)
            ELSE -1

\* an offset exactly MENU_RADIUS away, down and to the right, highlights slice 3
C4_Witness ==
    /\ event = [name |-> "on_cursor_moved", dx |-> 90, dy |-> 120]
    /\ menu.highlighted_slice = 3
    /\ effects = <<trigger_haptic(menu, "slice_change")>>

-----------------------------------------------------------------------------
(* _execute_subaction on an Easy-Switch sub-item on its own (specification SpecSub):
   one sub-item for every command string over CmdChars up to MaxCmdLen characters *)

CmdChars == {"0", "1", "2", "3", "-", "+", " ", "x"}

RECURSIVE Strings(_)
Strings(n) ==
    IF n = 0 THEN {<<>>}
    ELSE LET shorter == Strings(n - 1)
         IN  shorter \cup {Append(t, c) : t \in {u \in shorter : Len(u) = n - 1}, c \in CmdChars}

InitSub ==
    /\ event \in [name : {"subitem"},
                  item : {SubItem("Host", "easy_switch", cmd) : cmd \in Strings(MaxCmdLen)}]
    /\ menu = ShownMenu
    /\ RADIAL_PARAMS = NoParams
    /\ config_file = ConfigDoc("missing", <<>>, FALSE, DEFAULT_THEME)
    /\ Actions = DEFAULT_ACTIONS
    /\ env = Desktop(FALSE, FALSE, FALSE, TRUE)
    /\ now = 0
    /\ effects = <<>>
    /\ raised = FALSE
    /\ cfg = NoCfg
    /\ grab = NoGrab

\* _execute_subaction(subitem) with the sub-item drawn
ExecuteSubitem ==
    /\ event.name = "subitem"
    /\ \E launch \in Launches, gdbus \in Gdbus :
         LET r == execute_subaction(menu, event.item, launch, gdbus)
         IN  /\ menu' = r.m
             /\ effects' = r.eff
             /\ raised' = r.raised
    /\ event' = [event EXCEPT !.name = "_execute_subaction"]
    /\ UNCHANGED <<Actions, RADIAL_PARAMS, config_file, now, env, cfg, grab>>

NextSub == ExecuteSubitem

SpecSub == InitSub /\ [][NextSub]_vars

RECURSIVE Repeat(_, _)
Repeat(c, n) == IF n = 0 THEN <<>> ELSE <<c>> \o Repeat(c, n - 1)

\* the strings Python's int() reads as the host index h of 0..2: blanks around, an
\* optional sign, leading zeros, then the digit
WritesHost(cmd, h) ==
    \E a \in 0..Len(cmd), z \in 0..Len(cmd), b \in 0..Len(cmd) :
      \E sign \in {<<>>, <<"+">>} \cup (IF h = 0 THEN {<<"-">>} ELSE {}) :
         cmd = Repeat(" ", a) \o sign \o Repeat("0", z) \o <<Digits[h + 1]>> \o Repeat(" ", b)

SetHostCalls == { i \in 1..Len(effects) : effects[i].op = "SetHost" }

\* C6: an Easy-Switch sub-item calls SetHost only with a host index in 0..2, the one
\* its command denotes; when the command is not an integer or is outside 0..2, no
\* SetHost call is made and the 'invalid' haptic is triggered instead
C6_SetHostOnlyValidIndex ==
    event.name = "_execute_subaction" =>
        LET cmd == event.item.cmd
        IN  /\ \A i \in SetHostCalls :
                 \E h \in 0..2 : WritesHost(cmd, h) /\ effects[i].arg = <<Digits[h + 1]>>
            /\ (~\E h \in 0..2 : WritesHost(cmd, h)) =>
                 /\ SetHostCalls = {}
                 /\ effects = <<trigger_haptic(menu, "invalid")>>

\* the command "3" is an integer outside 0..2: only the 'invalid' haptic follows
C6_Witness ==
    /\ event.name = "_execute_subaction"
    /\ event.item.cmd = <<"3">>
    /\ effects = <<trigger_haptic(menu, "invalid")>>

-----------------------------------------------------------------------------
(* get_cursor_pos on its own (specification SpecCursor): every combination of the
   session flags and of what each cursor source answers *)

\* get_cursor_position_hyprland(): the IPC socket, then the hyprctl subprocess; NoPos
\* is the None it returns when both fail
get_cursor_position_hyprland(src) == IF src.ipc # NoPos THEN src.ipc ELSE src.hyprctl

\* get_cursor_position_gnome(): the answer of the shell extension, or None
get_cursor_position_gnome(src) == src.gnome

\* get_cursor_position_xwayland(): None without DISPLAY or when Xlib cannot be set up
\* or XQueryPointer fails
get_cursor_position_xwayland(e, src) == IF ~e.HAS_XWAYLAND THEN NoPos ELSE src.xlib

\* the dispatcher with the GNOME extension asked before Hyprland
get_cursor_pos_gnome_first(e, src) ==
    IF e.IS_GNOME /\ get_cursor_position_gnome(src) # NoPos
    THEN get_cursor_position_gnome(src)
    ELSE IF e.IS_HYPRLAND /\ get_cursor_position_hyprland(src) # NoPos
    THEN get_cursor_position_hyprland(src)
    ELSE IF e.HAS_XWAYLAND /\ get_cursor_position_xwayland(e, src) # NoPos
    THEN get_cursor_position_xwayland(e, src)
    ELSE src.qcursor

\* get_cursor_pos(): a returned tuple is truthy whatever its coordinates
get_cursor_pos(e, src) ==
    IF e.IS_HYPRLAND /\ get_cursor_position_hyprland(src) # NoPos
    THEN get_cursor_position_hyprland(src)
    ELSE IF e.IS_GNOME /\ get_cursor_position_gnome(src) # NoPos
    THEN get_cursor_position_gnome(src)
    ELSE IF e.HAS_XWAYLAND /\ get_cursor_position_xwayland(e, src) # NoPos
    THEN get_cursor_position_xwayland(e, src)
    ELSE src.qcursor

\* the centre of the default 1920x1080 screen
ScreenCentreGuess == <<FallbackMonitor.width \div 2, FallbackMonitor.height \div 2>>

\* what the sources answer: each its own point, so that the answer tells the source
CursorSources ==
    [ipc : {NoPos, <<0, 0>>, <<11, 11>>}, hyprctl : {NoPos, <<12, 12>>},
     gnome : {NoPos, <<20, 20>>}, xlib : {NoPos, <<30, 30>>},
     qcursor : {<<40, 40>>, ScreenCentreGuess}]

InitCursor ==
    /\ event \in [name : {"sources"}, sources : CursorSources, result : {NoPos}]
    /\ env \in {Desktop(h, g, FALSE, x) : h \in BOOLEAN, g \in BOOLEAN, x \in BOOLEAN}
    /\ menu = NewMenu
    /\ RADIAL_PARAMS = NoParams
    /\ config_file = ConfigDoc("missing", <<>>, FALSE, DEFAULT_THEME)
    /\ Actions = DEFAULT_ACTIONS
    /\ now = 0
    /\ effects = <<>>
    /\ raised = FALSE
    /\ cfg = NoCfg
    /\ grab = NoGrab

GetCursorPos ==
    /\ event.name = "sources"
    /\ event' = [event EXCEPT !.name = "get_cursor_pos",
                              !.result = get_cursor_pos(env, event.sources)]
    /\ UNCHANGED <<menu, Actions, RADIAL_PARAMS, config_file, now, effects, raised, env,
                   cfg, grab>>

NextCursor == GetCursorPos

SpecCursor == InitCursor /\ [][NextCursor]_vars

\* the sources in the order of the claim, each with whether the session has it
SourcesTried ==
    << [on |-> env.IS_HYPRLAND,
        pos |-> IF event.sources.ipc # NoPos THEN event.sources.ipc
                ELSE event.sources.hyprctl],
       [on |-> env.IS_GNOME, pos |-> event.sources.gnome],
       [on |-> env.HAS_XWAYLAND, pos |-> event.sources.xlib] >>

Succeeded(t) == t.on /\ t.pos # NoPos

\* the first source that succeeds, or otherwise
FirstSuccessOr(otherwise) ==
    LET ok == SelectSeq(SourcesTried, Succeeded)
    IN  IF ok # <<>> THEN Head(ok).pos ELSE otherwise

\* C8 as amended: get_cursor_pos always returns a coordinate pair: the first source
\* that succeeds among Hyprland (on Hyprland), the GNOME extension (on GNOME) and
\* XWayland (when DISPLAY is set), and when all of them fail what Qt's QCursor.pos()
\* reports
C8_FirstSourceElseQCursor ==
    event.name = "get_cursor_pos" =>
        /\ Len(event.result) = 2
        /\ event.result = FirstSuccessOr(event.sources.qcursor)

\* every source is there and fails: the answer is QCursor's
C8_Witness ==
    /\ event.name = "get_cursor_pos"
    /\ env.IS_HYPRLAND /\ env.IS_GNOME /\ env.HAS_XWAYLAND
    /\ SelectSeq(SourcesTried, Succeeded) = <<>>
    /\ event.sources.qcursor = <<40, 40>>
    /\ event.result = <<40, 40>>

\* C8: get_cursor_pos always returns a coordinate pair: the first source that
\* succeeds, and when all of them fail a default screen-centre guess
C8_FirstSourceElseScreenCentre ==
    event.name = "get_cursor_pos" =>
        /\ Len(event.result) = 2
        /\ event.result = FirstSuccessOr(ScreenCentreGuess)

-----------------------------------------------------------------------------
(* ConfigManager: loading config.json over DEFAULT_CONFIG (specification SpecCfg) *)

\* a JSON value: an object (its members as key-value pairs), or anything else, told
\* apart by an integer (1 a default, 2 what the file holds)
Val(n) == [t |-> "val", v |-> n, d |-> {}]
Dict(pairs) == [t |-> "dict", v |-> 0, d |-> pairs]
IsDict(x) == x.t = "dict"
DKeys(d) == {p[1] : p \in d}
DGet(d, k) == (CHOOSE p \in d : p[1] = k)[2]

\* the part of DEFAULT_CONFIG the model keeps: a nested section, a scalar
DEFAULT_CONFIG ==
    Dict({ <<"haptics", Dict({ <<"enabled", Val(1)>>,
                               <<"per_event", Dict({<<"confirm", Val(1)>>})>> })>>,
           <<"theme", Val(1)>> })

\* _deep_update(base, updates), on the members of base and updates
RECURSIVE deep_update(_, _)
deep_update(base, updates) ==
    { <<k, IF k \notin DKeys(updates) THEN DGet(base, k)
           ELSE IF k \in DKeys(base) /\ IsDict(DGet(base, k)) /\ IsDict(DGet(updates, k))
           THEN Dict(deep_update(DGet(base, k).d, DGet(updates, k).d))
           ELSE DGet(updates, k)>> : k \in DKeys(base) \cup DKeys(updates) }

\* _merge_defaults(loaded): loaded.items() raises when loaded is not an object
merge_defaults(loaded) ==
    IF IsDict(loaded)
    THEN [raised |-> FALSE, config |-> Dict(deep_update(DEFAULT_CONFIG.d, loaded.d))]
    ELSE [raised |-> TRUE, config |-> DEFAULT_CONFIG]

\* _load(): the defaults when the file is missing, is not JSON, or the merge raises
load(file) ==
    IF file.kind = "json" /\ ~merge_defaults(file.value).raised
    THEN merge_defaults(file.value).config
    ELSE DEFAULT_CONFIG

\* the keys a document of the model may hold at each depth
LevelKeys(l) ==
    CASE l = 1 -> {"haptics", "theme"}
      [] l = 2 -> {"enabled", "per_event"}
      [] OTHER -> {"confirm"}

\* the JSON values of the model at depth l, objects nested down to MaxDepth
RECURSIVE JsonValues(_)
JsonValues(l) ==
    IF l > MaxDepth THEN {Val(2)}
    ELSE {Val(2)} \cup
         UNION { { Dict({<<k, f[k]>> : k \in K}) : f \in [K -> JsonValues(l + 1)] }
                 : K \in SUBSET LevelKeys(l) }

JsonFile(v) == [kind |-> "json", value |-> v]
MissingFile == [kind |-> "missing", value |-> Val(0)]
InvalidFile == [kind |-> "invalid", value |-> Val(0)]

\* config.json: missing, not JSON, or any JSON value of the model
CfgFiles == {MissingFile, InvalidFile} \cup {JsonFile(v) : v \in JsonValues(1)}

\* what config.json is rewritten to between a load and a reload
RewrittenFiles ==
    { MissingFile, InvalidFile, JsonFile(Dict({<<"theme", Val(2)>>})),
      JsonFile(Dict({<<"haptics", Val(2)>>})) }

NotLoaded == Val(0)

InitCfg ==
    /\ cfg \in [phase : {"start"}, file : CfgFiles, config : {NotLoaded}]
    /\ event = NoEvent
    /\ menu = NewMenu
    /\ RADIAL_PARAMS = NoParams
    /\ config_file = ConfigDoc("missing", <<>>, FALSE, DEFAULT_THEME)
    /\ Actions = DEFAULT_ACTIONS
    /\ env = Desktop(FALSE, FALSE, FALSE, TRUE)
    /\ now = 0
    /\ effects = <<>>
    /\ raised = FALSE
    /\ grab = NoGrab

cfgOnly == <<menu, Actions, RADIAL_PARAMS, config_file, now, effects, raised, env, grab>>

\* ConfigManager.__init__: self.config = self._load()
ConfigLoad ==
    /\ cfg.phase = "start"
    /\ cfg' = [cfg EXCEPT !.phase = "loaded", !.config = load(cfg.file)]
    /\ event' = [name |-> "__init__"]
    /\ UNCHANGED cfgOnly

\* config.json is rewritten while the settings window is closed
ConfigRewritten ==
    /\ cfg.phase = "loaded"
    /\ event.name = "__init__"
    /\ \E f \in RewrittenFiles \ {cfg.file} : cfg' = [cfg EXCEPT !.phase = "stale", !.file = f]
    /\ UNCHANGED event
    /\ UNCHANGED cfgOnly

\* reload(): self.config = self._load()
ConfigReload ==
    /\ cfg.phase = "stale"
    /\ cfg' = [cfg EXCEPT !.phase = "loaded", !.config = load(cfg.file)]
    /\ event' = [name |-> "reload"]
    /\ UNCHANGED cfgOnly

NextCfg == ConfigLoad \/ ConfigRewritten \/ ConfigReload

SpecCfg == InitCfg /\ [][NextCfg]_vars

\* the key paths of a JSON value: to its members, and to theirs
RECURSIVE KeyPaths(_)
KeyPaths(x) ==
    IF ~IsDict(x) THEN {}
    ELSE UNION { {<<k>>} \cup {<<k>> \o q : q \in KeyPaths(DGet(x.d, k))} : k \in DKeys(x.d) }

RECURSIVE HasPath(_, _)
HasPath(x, path) ==
    \/ path = <<>>
    \/ /\ IsDict(x) /\ Head(path) \in DKeys(x.d)
       /\ HasPath(DGet(x.d, Head(path)), Tail(path))

RECURSIVE At(_, _)
At(x, path) == IF path = <<>> THEN x ELSE At(DGet(x.d, Head(path)), Tail(path))

\* the paths of the file at which it holds a value that is not an object
FileValuePaths(file) ==
    IF file.kind = "json" /\ IsDict(file.value)
    THEN {q \in KeyPaths(file.value) : ~IsDict(At(file.value, q))}
    ELSE {}

\* C9: after a load or a reload, for any content of config.json, every key path of
\* DEFAULT_CONFIG exists in the configuration, and a value present in the file
\* replaces the default at the same path
C9_DefaultsMerged ==
    cfg.phase = "loaded" =>
        /\ \A q \in KeyPaths(DEFAULT_CONFIG) : HasPath(cfg.config, q)
        /\ \A q \in FileValuePaths(cfg.file) :
             HasPath(cfg.config, q) /\ At(cfg.config, q) = At(cfg.file.value, q)

-----------------------------------------------------------------------------
(* ConfigManager.save() next to an overlay reading config.json (specification
   SpecSave).  Documents are numbered; a file's content is a document and how many
   of its DocChunks chunks are there.  The directory maps the two names to inodes
   (0: no such file); an open file keeps its inode whatever happens to the name. *)

Inodes == 1..3
FreeInode == [doc |-> 0, len |-> 0]
JSON == "config.json"
TMP == "config.json.tmp"

Referenced(c, fd) == {c.names[JSON], c.names[TMP], fd} \ {0}

\* inodes no name and no open file refers to are gone
Reclaim(c, fd) ==
    [c EXCEPT !.inodes = [i \in Inodes |-> IF i \in Referenced(c, fd) THEN c.inodes[i]
                                           ELSE FreeInode]]

\* open(path, "w"): the file is created, or truncated where it is
open_w(c, path, fd) ==
    LET i == IF c.names[path] # 0 THEN c.names[path]
             ELSE CHOOSE j \in Inodes : j \notin Referenced(c, fd)
    IN  [c EXCEPT !.names[path] = i, !.inodes[i] = [doc |-> c.config, len |-> 0]]

\* save() writing config.json where it is: temp_path is the file itself
save_open_in_place(c, fd) ==
    LET d == open_w(c, JSON, fd)
    IN  [d EXCEPT !.names[TMP] = d.names[JSON]]

\* temp_path = CONFIG_FILE.with_suffix(".json.tmp"); open(temp_path, "w")
save_open(c, fd) == open_w(c, TMP, fd)

\* json.dump(self.config, f): one more chunk reaches the temp file
save_write(c) == [c EXCEPT !.inodes[c.names[TMP]].len = @ + 1]

\* os.replace(temp_path, CONFIG_FILE): the name config.json now means the temp file
save_replace(c, fd) ==
    Reclaim([c EXCEPT !.names[JSON] = c.names[TMP], !.names[TMP] = 0], fd)

Toast(msg) == [op |-> "toast", arg |-> <<msg>>]
ReloadConfigCall == [op |-> "ReloadConfig", arg |-> <<>>]

\* _show_toast(message): the toast, if a callback is set
show_toast(c, message) == IF c.toast_callback THEN <<Toast(message)>> ELSE <<>>

\* _notify_daemon() that lets the GLib.Error of a daemon that is not there escape
notify_daemon_unguarded(outcome) ==
    [eff |-> IF outcome = "no bus" THEN <<>> ELSE <<ReloadConfigCall>>,
     raised |-> outcome # "ok"]

\* _notify_daemon(): ReloadConfig on the daemon; a GLib.Error is swallowed
notify_daemon(outcome) ==
    [eff |-> IF outcome = "no bus" THEN <<>> ELSE <<ReloadConfigCall>>, raised |-> FALSE]

\* save()'s except branch
save_failed(c) == [c EXCEPT !.pc = "idle"]

\* the document a file content amounts to: -1 when it is not all there
DocOf(content) == IF content.len = DocChunks THEN content.doc ELSE -1

\* what config.json holds: 0 no file, -1 a partial document, else the document
FileDoc(c) == IF c.names[JSON] = 0 THEN 0 ELSE DocOf(c.inodes[c.names[JSON]])

NoRead == [name |-> "none", fd |-> 0, got |-> -2, at |-> "idle"]

InitSave ==
    /\ \E present \in BOOLEAN :
         cfg = [pc |-> "idle", config |-> 1, prev |-> IF present THEN 1 ELSE 0,
                show_toast |-> TRUE,
                toast_callback |-> FALSE,
                reply |-> "none",
                names |-> [n \in {JSON, TMP} |-> IF n = JSON /\ present THEN 1 ELSE 0],
                inodes |-> [i \in Inodes |-> IF i = 1 /\ present
                                             THEN [doc |-> 1, len |-> DocChunks]
                                             ELSE FreeInode]]
    /\ event = NoRead
    /\ menu = NewMenu
    /\ RADIAL_PARAMS = NoParams
    /\ config_file = ConfigDoc("missing", <<>>, FALSE, DEFAULT_THEME)
    /\ Actions = DEFAULT_ACTIONS
    /\ env = Desktop(FALSE, FALSE, FALSE, TRUE)
    /\ now = 0
    /\ effects = <<>>
    /\ raised = FALSE
    /\ grab = NoGrab

Outcomes == {"ok", "fail"}

saveOnly == <<menu, Actions, RADIAL_PARAMS, config_file, now, raised, env, grab>>

SaveFails ==
    /\ cfg' = save_failed(cfg)
    /\ effects' = effects \o show_toast(cfg, "Error saving settings")

\* set_toast_callback(callback): the settings window registers its toast overlay
SetToastCallback ==
    /\ cfg.pc = "idle"
    /\ ~cfg.toast_callback
    /\ cfg' = [cfg EXCEPT !.toast_callback = TRUE]
    /\ UNCHANGED <<event, effects>>
    /\ UNCHANGED saveOnly

\* config.set(...): the settings window changes the configuration in memory
ConfigSet ==
    /\ cfg.pc = "idle"
    /\ cfg.config < MaxDoc
    /\ cfg' = [cfg EXCEPT !.config = @ + 1]
    /\ UNCHANGED <<event, effects>>
    /\ UNCHANGED saveOnly

\* save(show_toast) starts: CONFIG_DIR.mkdir(parents=True, exist_ok=True)
SaveBegin ==
    /\ cfg.pc = "idle"
    /\ \E show \in BOOLEAN, mkdir \in Outcomes :
         LET c == [cfg EXCEPT !.show_toast = show, !.prev = FileDoc(cfg)]
         IN  IF mkdir = "ok"
             THEN cfg' = [c EXCEPT !.pc = "open"] /\ effects' = <<>>
             ELSE cfg' = save_failed(c) /\ effects' = show_toast(cfg, "Error saving settings")
    /\ UNCHANGED event
    /\ UNCHANGED saveOnly

\* with open(temp_path, "w") as f
SaveOpen ==
    /\ cfg.pc = "open"
    /\ \/ cfg' = [save_open(cfg, event.fd) EXCEPT !.pc = "write"] /\ UNCHANGED effects
       \/ SaveFails
    /\ UNCHANGED event
    /\ UNCHANGED saveOnly

\* json.dump writes the document chunk by chunk; the write, or the close that ends
\* the with block, may fail (disk full)
SaveWrite ==
    /\ cfg.pc = "write"
    /\ \/ /\ cfg.inodes[cfg.names[TMP]].len < DocChunks
          /\ cfg' = save_write(cfg)
          /\ UNCHANGED effects
       \/ /\ cfg.inodes[cfg.names[TMP]].len = DocChunks
          /\ cfg' = [cfg EXCEPT !.pc = "replace"]
          /\ UNCHANGED effects
       \/ SaveFails
    /\ UNCHANGED event
    /\ UNCHANGED saveOnly

\* os.replace(temp_path, self.CONFIG_FILE)
SaveReplace ==
    /\ cfg.pc = "replace"
    /\ \/ cfg' = [save_replace(cfg, event.fd) EXCEPT !.pc = "notify"] /\ UNCHANGED effects
       \/ SaveFails
    /\ UNCHANGED event
    /\ UNCHANGED saveOnly

\* self._notify_daemon(), then the toast
SaveNotify ==
    /\ cfg.pc = "notify"
    /\ \E outcome \in {"ok", "GLib.Error", "no bus"} :
         LET r == notify_daemon(outcome)
         IN  /\ effects' = effects \o r.eff
                            \o (IF r.raised THEN show_toast(cfg, "Error saving settings")
                                ELSE IF cfg.show_toast THEN show_toast(cfg, "Settings saved")
                                ELSE <<>>)
             /\ cfg' = [cfg EXCEPT !.pc = "idle", !.reply = outcome]
    /\ UNCHANGED event
    /\ UNCHANGED saveOnly

\* the overlay opens config.json (load_actions_from_config, load_theme_name); without
\* the file it takes the defaults
ReaderOpen ==
    /\ event.fd = 0
    /\ event' = IF cfg.names[JSON] = 0
                THEN [name |-> "open", fd |-> 0, got |-> 0, at |-> cfg.pc]
                ELSE [name |-> "open", fd |-> cfg.names[JSON], got |-> -2, at |-> cfg.pc]
    /\ UNCHANGED <<cfg, effects>>
    /\ UNCHANGED saveOnly

\* json.load(f) reads what the opened file holds now; the file is closed
ReaderRead ==
    /\ event.fd # 0
    /\ event' = [name |-> "read", fd |-> 0, got |-> DocOf(cfg.inodes[event.fd]), at |-> cfg.pc]
    /\ cfg' = Reclaim(cfg, 0)
    /\ UNCHANGED effects
    /\ UNCHANGED saveOnly

NextSave ==
    \/ SetToastCallback
    \/ ConfigSet
    \/ SaveBegin
    \/ SaveOpen
    \/ SaveWrite
    \/ SaveReplace
    \/ SaveNotify
    \/ ReaderOpen
    \/ ReaderRead

SpecSave == InitSave /\ [][NextSave]_vars

\* C10: at every instant during a save, also one that fails part-way, config.json
\* holds the complete previous document or the complete new one (it is missing only
\* if it was before the save), and an overlay that reads it at any time never reads
\* a partial document
C10_AtomicReplace ==
    /\ FileDoc(cfg) # -1
    /\ cfg.pc # "idle" => FileDoc(cfg) \in {cfg.prev, cfg.config}
    /\ event.got # -1

\* an overlay read config.json while the temp file was half written, and got the
\* previous document
C10_Witness ==
    /\ cfg.pc = "write"
    /\ cfg.inodes[cfg.names[TMP]].len \in 1..(DocChunks - 1)
    /\ cfg.config = 2
    /\ event = [name |-> "read", fd |-> 0, got |-> 1, at |-> "write"]

-----------------------------------------------------------------------------
(* Every component that talks to the daemon object (specification SpecBus): the
   overlay of Spec, the settings window (save's _notify_daemon, the Flow page's
   on_host_change) and the cursor grabber *)

\* on_host_change(new_host) of the Flow page: SetHost on the daemon, any error swallowed
on_host_change(new_host, outcome) ==
    IF outcome = "no bus" THEN <<>> ELSE <<[op |-> "SetHost", arg |-> <<new_host>>]>>

ShowMenuCall == [op |-> "ShowMenu", arg |-> <<"x", "y">>]

\* is_active(): the activation file is there and younger than 500 ms; a stale one
\* is removed
is_active(g) == g.file = "fresh"

\* the ShowMenu of _check_activation and on_click: get_proxy(), then the call
show_menu(proxy) == IF proxy = "ok" THEN <<ShowMenuCall>> ELSE <<>>

\* _check_activation(): on activation the file is removed and ShowMenu sent
check_activation(g, proxy) ==
    [g |-> [g EXCEPT !.file = "none"],
     eff |-> IF is_active(g) /\ ~g.capturing THEN show_menu(proxy) ELSE <<>>]

\* on_click(): ignored unless active; else the file is removed and ShowMenu sent
on_click(g, proxy) ==
    [g |-> [g EXCEPT !.file = "none", !.capturing = FALSE],
     eff |-> IF is_active(g) THEN show_menu(proxy) ELSE <<>>]

InitBus ==
    /\ config_file \in {f \in ConfigFiles : ~setup_i18n_raises(f)}
    /\ Actions = load_actions_from_config(config_file)
    /\ RADIAL_PARAMS = load_radial_params(config_file)
    /\ env = Desktop(FALSE, FALSE, FALSE, TRUE)
    /\ menu = NewMenu
    /\ now = 0
    /\ effects = <<>>
    /\ raised = FALSE
    /\ event = NoEvent
    /\ cfg = NoCfg
    /\ grab = [file |-> "none", capturing |-> FALSE]

busOnly == <<menu, Actions, RADIAL_PARAMS, config_file, now, raised, env, cfg>>

\* a save of the settings window reaches _notify_daemon()
NotifyDaemon ==
    /\ \E outcome \in {"ok", "GLib.Error", "no bus"} : effects' = notify_daemon(outcome).eff
    /\ event' = [name |-> "_notify_daemon"]
    /\ UNCHANGED grab
    /\ UNCHANGED busOnly

\* another computer asks the Flow server for a host change
FlowHostChange ==
    /\ \E h \in {"0", "1", "2"}, outcome \in {"ok", "no bus"} :
         effects' = on_host_change(h, outcome)
    /\ event' = [name |-> "on_host_change"]
    /\ UNCHANGED grab
    /\ UNCHANGED busOnly

\* the daemon creates the activation file; time makes it stale
ActivationFile ==
    /\ \/ grab.file = "none" /\ grab' = [grab EXCEPT !.file = "fresh"]
       \/ grab.file = "fresh" /\ grab' = [grab EXCEPT !.file = "stale"]
    /\ UNCHANGED <<effects, event>>
    /\ UNCHANGED busOnly

\* the grabber's polling timer fires
CheckActivation ==
    /\ \E proxy \in {"ok", "none"} :
         /\ grab' = check_activation(grab, proxy).g
         /\ effects' = check_activation(grab, proxy).eff
    /\ event' = [name |-> "_check_activation"]
    /\ UNCHANGED busOnly

\* a click reaches the grabber's window
GrabberClick ==
    /\ \E proxy \in {"ok", "none"} :
         /\ grab' = on_click(grab, proxy).g
         /\ effects' = on_click(grab, proxy).eff
    /\ event' = [name |-> "on_click"]
    /\ UNCHANGED busOnly

NextBus ==
    \/ MenuRequested
    \/ HideMenu
    \/ CursorMoved
    \/ PollCursor
    \/ MouseMove
    \/ MousePress
    \/ KeyPress
    \/ Tick
    \/ NotifyDaemon
    \/ FlowHostChange
    \/ ActivationFile
    \/ CheckActivation
    \/ GrabberClick

SpecBus == InitBus /\ [][NextBus]_vars

\* what a handler does that is no call on the daemon object
LocalOps == {"Popen", "toast"}

DaemonCalls == { i \in 1..Len(effects) : effects[i].op \notin LocalOps }

HapticEvents == {"menu_appear", "slice_change", "confirm", "invalid"}

HapticsNamed ==
    \A i \in DaemonCalls : effects[i].op = "TriggerHaptic" => effects[i].arg[1] \in HapticEvents

\* C5 as amended: the only methods invoked on the daemon object are TriggerHaptic,
\* SetHost, ReloadConfig and the cursor grabber's ShowMenu, and every TriggerHaptic
\* carries one of menu_appear, slice_change, confirm, invalid
C5_DaemonMethodsWithShowMenu ==
    /\ \A i \in DaemonCalls :
          effects[i].op \in {"TriggerHaptic", "SetHost", "ReloadConfig", "ShowMenu"}
    /\ HapticsNamed

\* the cursor grabber has answered an activation with ShowMenu
C5_Witness ==
    /\ event.name = "_check_activation"
    /\ effects = <<ShowMenuCall>>
    /\ grab.file = "none"

\* C5: the only methods invoked on the daemon object are TriggerHaptic, SetHost and
\* ReloadConfig, and every TriggerHaptic carries one of the four event names
C5_DaemonMethods ==
    /\ \A i \in DaemonCalls : effects[i].op \in {"TriggerHaptic", "SetHost", "ReloadConfig"}
    /\ HapticsNamed

-----------------------------------------------------------------------------
(* The Flow page of the settings window (specification SpecFlow): the GTK main
   loop runs the handlers, _discover_computers starts discover_thread, and the
   zeroconf browser of an open Zeroconf instance calls add_discovered_computer.
   A thread's pc names the statement it is about to execute; cfg holds the
   page's fields and the threads. *)

Workers == 1..MaxScans

Computers == {"mac"}

IdleCall(f, arg) == [f |-> f, arg |-> arg]

\* _cleanup_zeroconf(): unregister, clear, close, forget the instance
cleanup_zeroconf(c) ==
    IF c.zeroconf # 0
    THEN [c EXCEPT !.registered_services = {},
                   !.open = @ \ {c.zeroconf},
                   !.zeroconf = 0]
    ELSE c

\* _update_computers_list(computers): the list box shows the computers
update_computers_list(c, computers) == [c EXCEPT !.computers_box = computers]

\* the statement of a GUI handler at c.gui, run by the main loop; "discover" is
\* _discover_computers(): _cleanup_zeroconf(), then the thread is started
gui_step(c) ==
    CASE c.gui = "scan:clear" ->
           [c EXCEPT !.discovered_computers = {}, !.gui = "scan:discover"]
      [] c.gui \in {"scan:discover", "discover"} ->
           IF ~c.ZEROCONF_AVAILABLE
           THEN [update_computers_list(c, {}) EXCEPT
                   !.gui = "idle",
                   !.runs = @ + 1,
                   !.timers = IF c.gui = "scan:discover" THEN @ + 1 ELSE @]
           ELSE [cleanup_zeroconf(c) EXCEPT
                   !.runs = @ + 1,
                   !.w[c.runs + 1] = "zc",
                   !.gui = "idle",
                   !.timers = IF c.gui = "scan:discover" THEN @ + 1 ELSE @]
      [] c.gui = "finish" ->
           [c EXCEPT !.scan_button = TRUE,
                     !.idle = Append(@, IdleCall("_update_computers_list",
                                                 c.discovered_computers)),
                     !.gui = "idle"]

\* discover_thread fills the list box itself
discover_report_direct(c, w) ==
    [update_computers_list(c, c.discovered_computers) EXCEPT !.w[w] = "finally"]

\* discover_thread after its sleep: GLib.idle_add(self._update_computers_list, list(...))
discover_report(c, w) ==
    [c EXCEPT !.idle = Append(@, IdleCall("_update_computers_list",
                                          c.discovered_computers)),
              !.w[w] = "finally"]

\* the statement of discover_thread number w at c.w[w]; ok: the library call succeeds
discover_thread(c, w, ok) ==
    CASE c.w[w] = "zc" ->
           IF ok
           THEN [c EXCEPT !.open = @ \cup {w}, !.zeroconf = w, !.w[w] = "register"]
           ELSE [c EXCEPT !.idle = Append(@, IdleCall("_update_computers_list", {})),
                          !.w[w] = "done"]
      [] c.w[w] = "register" ->
           IF ok /\ w \in c.open
           THEN [c EXCEPT !.registered_services = @ \cup {w}, !.w[w] = "report"]
           ELSE [c EXCEPT !.w[w] = "report"]
      [] c.w[w] = "report" -> discover_report(c, w)
      [] c.w[w] = "finally" ->
           [c EXCEPT !.registered_services = {},
                     !.open = @ \ {w},
                     !.zeroconf = IF @ = w THEN 0 ELSE @,
                     !.w[w] = "done"]

\* add_discovered_computer(name, ...), called by the browser's listener
add_discovered_computer(c, name) ==
    [c EXCEPT !.discovered_computers = @ \cup {name}]

InitFlow ==
    /\ config_file = 0
    /\ Actions = DEFAULT_ACTIONS
    /\ RADIAL_PARAMS = NoParams
    /\ env = Desktop(FALSE, FALSE, FALSE, TRUE)
    /\ menu = NewMenu
    /\ now = 0
    /\ effects = <<>>
    /\ raised = FALSE
    /\ grab = NoGrab
    /\ event = NoEvent
    /\ \E available \in BOOLEAN :
         cfg = [ZEROCONF_AVAILABLE |-> available,
                scan_button |-> TRUE,
                computers_box |-> {},
                discovered_computers |-> {},
                zeroconf |-> 0,
                registered_services |-> {},
                open |-> {},
                runs |-> 0,
                gui |-> "idle",
                timers |-> 0,
                idle |-> <<IdleCall("_discover_computers", {})>>,
                w |-> [w \in Workers |-> "none"]]

flowOnly ==
    <<menu, Actions, RADIAL_PARAMS, config_file, now, raised, env, grab, effects, event>>

\* the main loop takes the next idle callback, an expired timer or a click on Scan;
\* _update_computers_list touches widgets only and is run at once
GuiDispatch ==
    /\ cfg.gui = "idle"
    /\ \/ /\ cfg.idle # <<>>
          /\ cfg' = IF cfg.idle[1].f = "_discover_computers"
                    THEN [cfg EXCEPT !.idle = Tail(@), !.gui = "discover"]
                    ELSE [update_computers_list(cfg, cfg.idle[1].arg) EXCEPT
                            !.idle = Tail(@)]
       \/ /\ cfg.timers > 0
          /\ cfg' = [cfg EXCEPT !.timers = @ - 1, !.gui = "finish"]
       \/ /\ cfg.scan_button
          /\ cfg.runs < MaxScans
          /\ cfg' = [cfg EXCEPT !.scan_button = FALSE, !.gui = "scan:clear"]
    /\ UNCHANGED flowOnly

\* the main loop runs the handler's next statement
GuiStep ==
    /\ cfg.gui # "idle"
    /\ cfg' = gui_step(cfg)
    /\ UNCHANGED flowOnly

\* a discover_thread runs its next statement
DiscoverStep ==
    /\ \E w \in Workers, ok \in BOOLEAN :
         /\ cfg.w[w] \notin {"none", "done"}
         /\ cfg' = discover_thread(cfg, w, ok)
    /\ UNCHANGED flowOnly

\* the browser of an open Zeroconf instance gets an answer and calls its listener
BrowserStep ==
    /\ cfg.open # {}
    /\ \E name \in Computers : cfg' = add_discovered_computer(cfg, name)
    /\ UNCHANGED flowOnly

NextFlow ==
    \/ GuiDispatch
    \/ GuiStep
    \/ DiscoverStep
    \/ BrowserStep

SpecFlow == InitFlow /\ [][NextFlow]_vars

\* the fields a thread's next statement reads and writes
Pending(reads, writes) == [reads |-> reads, writes |-> writes]

GuiPending ==
    CASE cfg.gui = "scan:clear" -> Pending({}, {"discovered_computers"})
      [] cfg.gui \in {"scan:discover", "discover"} /\ cfg.ZEROCONF_AVAILABLE ->
           Pending({"_zeroconf", "_registered_services"},
                   {"_zeroconf", "_registered_services"})
      [] cfg.gui = "finish" -> Pending({"discovered_computers"}, {})
      [] OTHER -> Pending({}, {})

DiscoverPending(w) ==
    CASE cfg.w[w] = "zc" -> Pending({}, {"_zeroconf"})
      [] cfg.w[w] = "register" -> Pending({}, {"_registered_services"})
      [] cfg.w[w] = "finally" ->
           Pending({"_zeroconf", "_registered_services"},
                   {"_zeroconf", "_registered_services"})
      [] cfg.w[w] = "report" -> Pending({"discovered_computers"}, {})
      [] OTHER -> Pending({}, {})

\* an answer may reach a listening browser at any moment
BrowserPending ==
    IF cfg.open # {} THEN Pending({}, {"discovered_computers"}) ELSE Pending({}, {})

Conflict(p, q) ==
    \/ p.writes \cap (q.reads \cup q.writes) # {}
    \/ q.writes \cap (p.reads \cup p.writes) # {}

\* two threads are about to touch the same field, one of them writing it
Race ==
    \/ Conflict(GuiPending, BrowserPending)
    \/ \E w \in Workers :
         \/ Conflict(GuiPending, DiscoverPending(w))
         \/ Conflict(DiscoverPending(w), BrowserPending)
    \/ \E w, v \in Workers : w # v /\ Conflict(DiscoverPending(w), DiscoverPending(v))

Widgets(c) == <<c.scan_button, c.computers_box>>

\* C11 as amended: the program is single-threaded except for the Flow page's
\* computer discovery, whose threads (discover_thread, the zeroconf browser)
\* change no widget: the list of computers reaches the list box through
\* GLib.idle_add, on the GUI thread
C11_OnlyDiscoveryOffGuiThread ==
    [][DiscoverStep \/ BrowserStep => Widgets(cfg') = Widgets(cfg)]_vars

\* discover_thread is about to append to _registered_services while the GUI
\* thread, after a click on Scan, is about to run _cleanup_zeroconf on the
\* instance that thread has opened
C11_Witness ==
    /\ cfg.gui = "scan:discover"
    /\ \E w \in Workers : cfg.w[w] = "register" /\ cfg.zeroconf = w
    /\ Race

\* C11: no operation starts a worker thread, and no field is written by one
\* thread while another thread reads or writes it
C11_SingleThread ==
    /\ \A w \in Workers : cfg.w[w] = "none"
    /\ ~Race

-----------------------------------------------------------------------------
(* The layer-shell overlay juhradial-gtk4.py (specification SpecShell): the
   application, its capture overlay and its menu window, all on the GTK main
   loop. cfg holds the two windows, the pending _do_inject timers, the idle
   queue, the injected clicks that ydotool has not delivered yet, and the
   requests and show_at calls so far; effects is the list of show_at calls. *)

MENU_DIAMETER == 300

EDGE_MARGIN == 20

ShellMonitor == [width |-> 1920, height |-> 1080]

\* what display.get_monitors() answers
ShellMonitors == {<<>>, <<ShellMonitor>>}

\* where the pointer can be when a click reaches the overlay
ClickPoints == {<<100, 1000>>, <<1000, 500>>}

\* subprocess.Popen(["ydotool", ...]): raises; runs and clicks; runs and clicks nothing
Ydotool == {"raises", "clicks", "no click"}

\* start_capture()
start_capture(c) == [c EXCEPT !.waiting_for_click = TRUE, !.overlay = TRUE]

\* stop_capture()
stop_capture(c) == [c EXCEPT !.waiting_for_click = FALSE, !.overlay = FALSE]

\* _on_middle_click / _on_any_click: a click is taken only while waiting
on_click_pressed(c, x, y) ==
    IF c.waiting_for_click
    THEN [c EXCEPT !.waiting_for_click = FALSE,
                   !.overlay = FALSE,
                   !.idle = Append(@, <<x, y>>)]
    ELSE c

\* show_at(x, y): menu_x, menu_y, and the margins of the clamped position
show_at(c, x, y) ==
    LET width == IF Len(c.monitors) > 0 THEN c.monitors[1].width ELSE 1920
        height == IF Len(c.monitors) > 0 THEN c.monitors[1].height ELSE 1080
        half_size == (MENU_DIAMETER + 24) \div 2
        cx == Max(half_size + EDGE_MARGIN, Min(x, width - half_size - EDGE_MARGIN))
        cy == Max(half_size + EDGE_MARGIN, Min(y, height - half_size - EDGE_MARGIN))
    IN  [c EXCEPT !.menu_x = x,
                  !.menu_y = y,
                  !.left_margin = cx - half_size,
                  !.top_margin = cy - half_size,
                  !.menu = TRUE]

\* _on_position_captured(x, y)
on_position_captured(c, x, y) == show_at(stop_capture(c), x, y)

\* _fallback_position(): the centre of the first monitor, when there is one
fallback_position(c) ==
    IF Len(c.monitors) > 0
    THEN [c |-> on_position_captured(c, c.monitors[1].width \div 2,
                                     c.monitors[1].height \div 2),
          shown |-> <<[op |-> "show_at",
                       arg |-> <<c.monitors[1].width \div 2,
                                 c.monitors[1].height \div 2>>]>>]
    ELSE [c |-> c, shown |-> <<>>]

\* _do_inject(): Popen of ydotool; the fallback only when Popen raises
do_inject(c, ydotool) ==
    CASE ydotool = "raises" -> fallback_position(c)
      [] ydotool = "clicks" -> [c |-> [c EXCEPT !.injected = @ + 1], shown |-> <<>>]
      [] ydotool = "no click" -> [c |-> c, shown |-> <<>>]

InitShell ==
    /\ config_file = 0
    /\ Actions = DEFAULT_ACTIONS
    /\ RADIAL_PARAMS = NoParams
    /\ env = Desktop(FALSE, FALSE, FALSE, TRUE)
    /\ menu = NewMenu
    /\ now = 0
    /\ effects = <<>>
    /\ raised = FALSE
    /\ grab = NoGrab
    /\ event = NoEvent
    /\ \E monitors \in ShellMonitors :
         cfg = [monitors |-> monitors,
                waiting_for_click |-> FALSE,
                overlay |-> FALSE,
                menu |-> FALSE,
                menu_x |-> 0,
                menu_y |-> 0,
                left_margin |-> 0,
                top_margin |-> 0,
                timers |-> 0,
                idle |-> <<>>,
                injected |-> 0,
                requests |-> 0,
                raises |-> 0,
                clicks |-> <<>>]

shellOnly == <<menu, Actions, RADIAL_PARAMS, config_file, now, raised, env, grab, event>>

\* _on_menu_requested: _inject_click_and_capture()
ShellMenuRequested ==
    /\ cfg.requests < MaxRequests
    /\ cfg' = [start_capture(cfg) EXCEPT !.timers = @ + 1, !.requests = @ + 1]
    /\ UNCHANGED effects
    /\ UNCHANGED shellOnly

\* the 10 ms timer: _do_inject
ShellDoInject ==
    /\ cfg.timers > 0
    /\ \E ydotool \in Ydotool :
         LET r == do_inject([cfg EXCEPT !.timers = @ - 1], ydotool)
         IN  /\ cfg' = [r.c EXCEPT !.raises = IF ydotool = "raises" THEN @ + 1 ELSE @]
             /\ effects' = effects \o r.shown
    /\ UNCHANGED shellOnly

\* a click, injected by ydotool or made by the user, with the pointer at <<x, y>>;
\* it reaches the capture overlay only while the overlay is shown, and then both
\* gestures (middle button, any button) see it
ShellClick ==
    /\ \E p \in ClickPoints, by_ydotool \in BOOLEAN :
         /\ by_ydotool => cfg.injected > 0
         /\ ~by_ydotool => Len(cfg.clicks) < MaxRequests
         /\ LET c == [cfg EXCEPT !.injected = IF by_ydotool THEN @ - 1 ELSE @]
                taken == c.overlay /\ c.waiting_for_click
            IN  cfg' = IF c.overlay
                       THEN [on_click_pressed(on_click_pressed(c, p[1], p[2]), p[1], p[2])
                               EXCEPT !.clicks = IF taken THEN Append(@, p) ELSE @]
                       ELSE c
    /\ UNCHANGED effects
    /\ UNCHANGED shellOnly

\* the idle callback queued by a captured click: _on_position_captured
ShellIdle ==
    /\ cfg.idle # <<>>
    /\ cfg' = on_position_captured([cfg EXCEPT !.idle = Tail(@)],
                                   cfg.idle[1][1], cfg.idle[1][2])
    /\ effects' = Append(effects, [op |-> "show_at", arg |-> cfg.idle[1]])
    /\ UNCHANGED shellOnly

\* _on_hide_menu: hide_menu(execute=True) with no slice highlighted
ShellHideMenu ==
    /\ cfg.menu
    /\ cfg' = [cfg EXCEPT !.menu = FALSE]
    /\ UNCHANGED effects
    /\ UNCHANGED shellOnly

NextShell ==
    \/ ShellMenuRequested
    \/ ShellDoInject
    \/ ShellClick
    \/ ShellIdle
    \/ ShellHideMenu

SpecShell == InitShell /\ [][NextShell]_vars

\* nothing of a capture is left to happen: no timer, no queued callback, and
\* every ydotool that was started has clicked or ended without clicking
CaptureEnded == cfg.timers = 0 /\ cfg.idle = <<>> /\ cfg.injected = 0

ShellCentre == <<ShellMonitor.width \div 2, ShellMonitor.height \div 2>>

\* C12: each MenuRequested starts a capture that ends with the capture overlay
\* hidden and the menu shown exactly once, at the position of the captured
\* click, or at the centre of the first monitor when the injection failed
C12_CaptureEndsWithMenu ==
    /\ Len(effects) <= cfg.requests
    /\ CaptureEnded =>
         /\ ~cfg.overlay
         /\ ~cfg.waiting_for_click
         /\ Len(effects) = cfg.requests
         /\ \A i \in 1..Len(effects) :
              effects[i].arg \in {cfg.clicks[j] : j \in 1..Len(cfg.clicks)} \cup {ShellCentre}

\* ydotool was started and ended without a click: the capture overlay stays
\* shown and waiting, and no menu is shown
C12_Stuck ==
    /\ CaptureEnded
    /\ cfg.requests = 1
    /\ cfg.raises = 0
    /\ cfg.monitors # <<>>
    /\ cfg.overlay /\ cfg.waiting_for_click
    /\ effects = <<>>

-----------------------------------------------------------------------------
(* themes.py and the placing of the icons on a 3D wheel (specification
   SpecTheme): the theme named in config.json is loaded into RADIAL_PARAMS and
   _draw_3d_icon places icon event.index. Offsets from the wheel's centre are
   in hundredths of a pixel. *)

\* a theme key, cut after the prefix that tells a 3D theme
ThemeKeys ==
    { <<"juhradial-mx">>, <<"catppuccin-mocha">>, <<"nord">>, <<"dracula">>,
      <<"catppuccin-latte">>, <<"github-light">>, <<"solarized-light">>,
      <<"3d-", "blossom">>, <<"3d-", "neon">>, <<"3d-", "pastel">>, <<"3d-", "crystal">> }

NoImage == ""

VectorTheme == [radial_image |-> NoImage, radial_params |-> NoParams]

\* a 3D theme whose icons are placed outside the ring
WheelTheme_icons_outside(image) ==
    [radial_image |-> image,
     radial_params |-> { <<"image_size", 310>>, <<"icon_radius", 150>>,
                         <<"ring_inner", RING_INNER>>, <<"ring_outer", 144>> }]

\* the radial_image and the geometry of the radial_params of a 3D theme (the four
\* themes have the same geometry)
WheelTheme(image) ==
    [radial_image |-> image,
     radial_params |-> { <<"image_size", 310>>, <<"icon_radius", 101>>,
                         <<"ring_inner", RING_INNER>>, <<"ring_outer", 144>> }]

THEMES ==
    [key \in ThemeKeys |->
       CASE key = <<"3d-", "blossom">> -> WheelTheme("radialwheel2.png")
         [] key = <<"3d-", "neon">> -> WheelTheme("radialwheel3.png")
         [] key = <<"3d-", "pastel">> -> WheelTheme("radialwheel4.png")
         [] key = <<"3d-", "crystal">> -> WheelTheme("radialwheel5.png")
         [] OTHER -> VectorTheme]

\* load_theme_name() on a config.json that names the theme
load_theme_name(theme_name) ==
    IF theme_name = <<"system">> \/ theme_name \notin DOMAIN THEMES
    THEN <<DEFAULT_THEME>>
    ELSE theme_name

get_theme(theme_name) == THEMES[load_theme_name(theme_name)]

get_radial_image(theme_name) == get_theme(theme_name).radial_image

get_radial_params(theme_name) == get_theme(theme_name).radial_params

\* cos(45 k degrees) in hundredths
Cos45(k) == <<100, 71, 0, -71, -100, -71, 0, 71>>[(k % 8) + 1]

Sin45(k) == Cos45(k + 6)

\* _draw_3d_icon: icon_x - cx and icon_y - cy at angle 45 * index - 90 degrees
icon_offset(params, index) ==
    LET icon_radius == DictGet(params, "icon_radius", 100)
    IN  <<icon_radius * Cos45(index + 6), icon_radius * Sin45(index + 6)>>

\* the theme names a config.json can hold
ThemeNames == ThemeKeys \cup {<<"system">>, <<"3d-", "gone">>}

InitTheme ==
    /\ event \in [name : {"config"}, theme : ThemeNames, index : 0..7, icon : {NoPos}]
    /\ RADIAL_PARAMS = NoParams
    /\ config_file = 0
    /\ Actions = DEFAULT_ACTIONS
    /\ env = Desktop(FALSE, FALSE, FALSE, TRUE)
    /\ menu = NewMenu
    /\ now = 0
    /\ effects = <<>>
    /\ raised = FALSE
    /\ cfg = NoCfg
    /\ grab = NoGrab

themeOnly == <<menu, Actions, config_file, now, effects, raised, env, cfg, grab>>

\* load_radial_image(): RADIAL_PARAMS = get_radial_params()
LoadRadialImage ==
    /\ event.name = "config"
    /\ RADIAL_PARAMS' = get_radial_params(event.theme)
    /\ event' = [event EXCEPT !.name = "loaded"]
    /\ UNCHANGED themeOnly

\* paintEvent on a theme with a wheel image: _draw_3d_icon(index)
DrawIcon ==
    /\ event.name = "loaded"
    /\ get_radial_image(event.theme) # NoImage
    /\ event' = [event EXCEPT !.name = "_draw_3d_icon",
                              !.icon = icon_offset(RADIAL_PARAMS, event.index)]
    /\ UNCHANGED RADIAL_PARAMS
    /\ UNCHANGED themeOnly

NextTheme ==
    \/ LoadRadialImage
    \/ DrawIcon

SpecTheme == InitTheme /\ [][NextTheme]_vars

Param(key) == DictGet(RADIAL_PARAMS, key, 0)

Sq(n) == n * n

\* C13: a loaded theme whose key starts with '3d-' and that names a radial_image
\* has 0 < ring_inner < icon_radius < ring_outer <= image_size / 2, and each icon
\* drawn on it lies between the two circles of the ring, inside the image
C13_RadialParamsOrdered ==
    /\ event.name # "config"
    /\ Head(load_theme_name(event.theme)) = "3d-"
    /\ get_radial_image(event.theme) # NoImage
    => /\ 0 < Param("ring_inner")
       /\ Param("ring_inner") < Param("icon_radius")
       /\ Param("icon_radius") < Param("ring_outer")
       /\ 2 * Param("ring_outer") <= Param("image_size")
       /\ event.name = "_draw_3d_icon" =>
            /\ Sq(100 * Param("ring_inner")) < Sq(event.icon[1]) + Sq(event.icon[2])
            /\ Sq(event.icon[1]) + Sq(event.icon[2]) < Sq(100 * Param("ring_outer"))
            /\ 2 * Abs(event.icon[1]) <= 100 * Param("image_size")
            /\ 2 * Abs(event.icon[2]) <= 100 * Param("image_size")

\* the icon of the top-right slice has been drawn on the wheel of 3d-neon
C13_Witness ==
    /\ event.name = "_draw_3d_icon"
    /\ event.theme = <<"3d-", "neon">>
    /\ event.index = 1
    /\ event.icon = <<101 * 71, -(101 * 71)>>

-----------------------------------------------------------------------------
(* The haptic of a slice change (specification Spec) *)

SliceChangeHaptic == [op |-> "TriggerHaptic", arg |-> <<"slice_change">>]

SliceChangeHaptics(eff) == { i \in 1..Len(eff) : eff[i] = SliceChangeHaptic }

\* C14: a handler (on_cursor_moved, _poll_cursor, mouseMoveEvent or any other)
\* requests the 'slice_change' haptic, once, exactly when it changes the
\* highlighted slice to a slice in 0..7; it requests none when the highlight
\* changes to -1 or does not change (every step but Tick is a handler)
C14_HapticOnSliceChange ==
    [][ now' = now
        => IF menu'.highlighted_slice # menu.highlighted_slice
              /\ menu'.highlighted_slice \in 0..7
           THEN Cardinality(SliceChangeHaptics(effects')) = 1
           ELSE SliceChangeHaptics(effects') = {} ]_vars

\* the cursor timer has moved the highlight from one slice to another and asked
\* for the haptic
C14_Witness ==
    /\ event.name = "_poll_cursor"
    /\ menu.highlighted_slice = 3
    /\ menu.toggle_mode
    /\ effects = <<SliceChangeHaptic>>

-----------------------------------------------------------------------------
(* on_show on Hyprland (specification SpecHypr): one MenuRequested on a session
   with IS_HYPRLAND, for the monitors Hyprland reports and the position of the
   cursor; event keeps the inputs and the monitor get_monitor_at_cursor gave *)

\* what "j/monitors" answers
HyprAnswers ==
    { [ok |-> FALSE, mons |-> <<>>],
      [ok |-> TRUE, mons |-> << Monitor(0, 0, 1920, 1080, 100, TRUE) >>],
      [ok |-> TRUE, mons |-> << Monitor(0, 0, 1920, 1080, 100, FALSE),
                                Monitor(1920, 0, 2560, 1440, 200, TRUE) >>],
      [ok |-> TRUE, mons |-> << Monitor(0, 0, 2560, 1440, 100, FALSE),
                                Monitor(3000, 0, 1920, 1080, 100, FALSE) >>],
      [ok |-> TRUE, mons |-> << Monitor(0, 0, 800, 480, 100, TRUE) >>],
      [ok |-> TRUE, mons |-> << Monitor(0, 0, 1920, 1080, 150, TRUE) >>] }

\* the position the signal carries, and what "j/cursorpos" answers
HyprPoints == { <<x, y>> : x \in {0, 100, 1279, 1919, 1920, 2700, 3100}, y \in {0, 500, 1079} }

HyprFresh == { NoPos, <<2500, 500>> }

InitHypr ==
    /\ event \in [name : {"MenuRequested"}, answer : HyprAnswers, pos : HyprPoints,
                  fresh : HyprFresh, mon : {FallbackMonitor}]
    /\ env = Desktop(TRUE, FALSE, FALSE, TRUE)
    /\ config_file = ConfigDoc("missing", <<>>, FALSE, DEFAULT_THEME)
    /\ Actions = DEFAULT_ACTIONS
    /\ RADIAL_PARAMS = NoParams
    /\ menu = NewMenu
    /\ now = 0
    /\ effects = <<>>
    /\ raised = FALSE
    /\ cfg = NoCfg
    /\ grab = NoGrab

\* on_show(x, y): _refresh_monitors(), the fresh position, the monitor, the clamp
HyprShow ==
    /\ event.name = "MenuRequested"
    /\ LET cache == refresh_monitors(env.monitors_cache, event.answer)
           fresh == [hyprland |-> event.fresh, gnome |-> NoPos, synced |-> NoPos]
           p == fresh_position(env, event.pos[1], event.pos[2], fresh)
           r == on_show(menu, Actions, env, cache, event.pos[1], event.pos[2], fresh, now)
       IN  /\ env' = [env EXCEPT !.monitors_cache = cache]
           /\ menu' = r.m
           /\ effects' = r.eff
           /\ raised' = r.raised
           /\ event' = [event EXCEPT !.name = "on_show",
                                     !.pos = p,
                                     !.mon = get_monitor_at_cursor(cache.mons, p[1], p[2])]
    /\ UNCHANGED <<Actions, RADIAL_PARAMS, config_file, now, cfg, grab>>

NextHypr == HyprShow

SpecHypr == InitHypr /\ [][NextHypr]_vars

\* the window of the menu lies inside the rectangle mon
WindowInside(mon) ==
    LET half == WINDOW_SIZE \div 2
    IN  /\ mon.x <= menu.menu_center_x - half
        /\ menu.menu_center_x - half + WINDOW_SIZE <= mon.x + mon.width
        /\ mon.y <= menu.menu_center_y - half
        /\ menu.menu_center_y - half + WINDOW_SIZE <= mon.y + mon.height

\* C15 as amended: on Hyprland, after on_show has shown the menu, the window lies
\* inside the rectangle of the monitor returned by get_monitor_at_cursor, for every
\* cursor position and every layout in which that rectangle is at least
\* WINDOW_SIZE wide and high
C15_WindowInsideLargeMonitor ==
    /\ event.name = "on_show"
    /\ menu.visible
    /\ event.mon.width >= WINDOW_SIZE
    /\ event.mon.height >= WINDOW_SIZE
    => WindowInside(event.mon)

\* the cursor was near the left edge of the only monitor and the menu was moved in
C15_Witness ==
    /\ event.name = "on_show"
    /\ menu.visible
    /\ event.pos = <<100, 500>>
    /\ event.mon = [x |-> 0, y |-> 0, width |-> 1920, height |-> 1080]
    /\ menu.menu_center_x = WINDOW_SIZE \div 2
    /\ menu.menu_center_y = 500

\* C15: on Hyprland, after on_show has shown the menu, the window lies inside the
\* rectangle of the monitor returned by get_monitor_at_cursor, for every cursor
\* position and every monitor layout
C15_WindowInsideMonitor ==
    event.name = "on_show" /\ menu.visible => WindowInside(event.mon)

\* the monitor of the claim: the first that contains the point, else the first
\* focused one, else the first of the list
MonitorOfClaim(mons, cx, cy) ==
    LET hit == {i \in 1..Len(mons) : Contains(mons[i], cx, cy)}
        foc == {i \in 1..Len(mons) : mons[i].focused}
    IN  IF hit # {} THEN MonRect(mons[First(hit)])
        ELSE IF foc # {} THEN MonRect(mons[First(foc)])
        ELSE MonRect(mons[1])

\* C16: get_monitor_at_cursor returns the monitor whose logical rectangle contains
\* the point; when none contains it, the focused monitor; and when none is
\* focused, the first monitor of the cached list
C16_MonitorAtCursor ==
    event.name = "on_show" /\ env.monitors_cache.mons # <<>>
    => event.mon = MonitorOfClaim(env.monitors_cache.mons, event.pos[1], event.pos[2])

\* the cursor is between two monitors, none focused: the answer is the built-in
\* 1920x1080 rectangle, not the first monitor
C16_Fallback ==
    /\ event.name = "on_show"
    /\ Len(env.monitors_cache.mons) = 2
    /\ event.pos = <<2700, 500>>
    /\ event.mon = FallbackMonitor
    /\ MonRect(env.monitors_cache.mons[1]) # FallbackMonitor

-----------------------------------------------------------------------------
(* save() and the daemon (specification SpecSave) *)

Has(eff, call) == \E i \in 1..Len(eff) : eff[i] = call

\* a step in which save() fails while it writes the file: open, dump or replace
WriteFails == cfg.pc \in {"open", "write", "replace"} /\ cfg'.pc = "idle"

\* the parts of C17 that do not depend on the toast callback: ReloadConfig is
\* called only in the step after the replace, with the new document in
\* config.json; a failed write calls no ReloadConfig and leaves the configuration
\* in memory as it was; and after _notify_daemon, whatever the daemon answered,
\* the document is in place and no error is reported
ReloadAfterReplace ==
    /\ ~Has(effects, ReloadConfigCall) /\ Has(effects', ReloadConfigCall)
         => cfg.pc = "notify" /\ FileDoc(cfg) = cfg.config
    /\ WriteFails => ~Has(effects', ReloadConfigCall) /\ cfg'.config = cfg.config
    /\ cfg.pc = "notify" /\ cfg'.pc = "idle"
         => /\ FileDoc(cfg') = cfg'.config
            /\ ~Has(effects', Toast("Error saving settings"))
            /\ cfg.show_toast /\ cfg.toast_callback
                 => Has(effects', Toast("Settings saved"))

\* C17 as amended: save() calls ReloadConfig only after the new config.json is in
\* place; when writing the file fails, ReloadConfig is not called, the in-memory
\* configuration is unchanged and, if a toast callback is set, an error toast is
\* shown; a failing ReloadConfig call does not make the save fail
C17_ReloadAfterReplaceToastIfCallback ==
    [][ /\ ReloadAfterReplace
        /\ WriteFails /\ cfg.toast_callback
             => Has(effects', Toast("Error saving settings")) ]_vars

\* the daemon was not running: the save ended with the new document in place, a
\* ReloadConfig attempt and the toast "Settings saved"
C17_Witness ==
    /\ cfg.pc = "idle"
    /\ cfg.reply = "GLib.Error"
    /\ cfg.config = 2
    /\ FileDoc(cfg) = 2
    /\ effects = <<ReloadConfigCall, Toast("Settings saved")>>

\* C17: save() calls ReloadConfig only after the new config.json is in place; when
\* writing the file fails, ReloadConfig is not called, the in-memory configuration
\* is unchanged and an error toast is shown; a failing ReloadConfig call does not
\* make the save fail
C17_ReloadAfterReplace ==
    [][ /\ ReloadAfterReplace
        /\ WriteFails => Has(effects', Toast("Error saving settings")) ]_vars

-----------------------------------------------------------------------------
(* ConfigManager.get and ConfigManager.set (specification SpecSet): one set, then
   the get of the same path, or one get, on any configuration a load can leave.
   event keeps the call and what it gave. *)

\* get(*keys, default): the value at the path, or the default
RECURSIVE get(_, _, _)
get(value, keys, default) ==
    IF keys = <<>> THEN value
    ELSE IF IsDict(value) /\ Head(keys) \in DKeys(value.d)
    THEN get(DGet(value.d, Head(keys)), Tail(keys), default)
    ELSE default

\* the members of a dict with key k set to x
DSet(d, k, x) == {p \in d : p[1] # k} \cup {<<k, x>>}

\* the loop and the assignment of set(): target[key] = {} for a missing key,
\* target = target[key], and at the end target[keys[-1]] = value. A target that is
\* no dict raises TypeError, at "key not in target" or at the item assignment
RECURSIVE set_in(_, _, _)
set_in(target, keys, value) ==
    IF ~IsDict(target) THEN [raised |-> TRUE, target |-> target]
    ELSE IF Len(keys) = 1
    THEN [raised |-> FALSE, target |-> Dict(DSet(target.d, keys[1], value))]
    ELSE LET key == Head(keys)
             child == IF key \in DKeys(target.d) THEN DGet(target.d, key) ELSE Dict({})
             r == set_in(child, Tail(keys), value)
         IN  IF r.raised THEN [raised |-> TRUE, target |-> target]
             ELSE [raised |-> FALSE, target |-> Dict(DSet(target.d, key, r.target))]

SaveCall == [op |-> "save", arg |-> <<>>]

\* set(*keys_and_value, auto_save): nothing without a key; save() when auto_save
set(config, keys, value, auto_save) ==
    IF Len(keys) < 1 THEN [raised |-> FALSE, config |-> config, eff |-> <<>>]
    ELSE LET r == set_in(config, keys, value)
         IN  [raised |-> r.raised, config |-> r.target,
              eff |-> IF auto_save /\ ~r.raised THEN <<SaveCall>> ELSE <<>>]

\* the configurations a load leaves
LoadedConfigs == {load(f) : f \in CfgFiles}

PathKeys == {"haptics", "theme", "enabled", "flow"}

KeyPathsOf(n) == UNION {[1..l -> PathKeys] : l \in 0..n}

SetValues == {Val(3), Dict({})}

NoCall == [name |-> "none", path |-> <<>>, value |-> Val(0), auto_save |-> FALSE,
           raised |-> FALSE, got |-> Val(0)]

InitSet ==
    /\ cfg \in [phase : {"loaded"}, file : {MissingFile}, config : LoadedConfigs]
    /\ event = NoCall
    /\ menu = NewMenu
    /\ RADIAL_PARAMS = NoParams
    /\ config_file = ConfigDoc("missing", <<>>, FALSE, DEFAULT_THEME)
    /\ Actions = DEFAULT_ACTIONS
    /\ env = Desktop(FALSE, FALSE, FALSE, TRUE)
    /\ now = 0
    /\ effects = <<>>
    /\ raised = FALSE
    /\ grab = NoGrab

setOnly == <<menu, Actions, RADIAL_PARAMS, config_file, now, env, grab>>

\* a page of the settings window calls config.set(k1, ..., kn, v)
SetCalled ==
    /\ event.name = "none"
    /\ \E path \in KeyPathsOf(MaxPath), value \in SetValues, auto_save \in BOOLEAN :
         LET r == set(cfg.config, path, value, auto_save)
         IN  /\ cfg' = [cfg EXCEPT !.config = r.config]
             /\ effects' = r.eff
             /\ raised' = r.raised
             /\ event' = [NoCall EXCEPT !.name = "set", !.path = path, !.value = value,
                                        !.auto_save = auto_save, !.raised = r.raised]
    /\ UNCHANGED setOnly

\* config.get(k1, ..., kn, default=Val(9)): of the path just set, or of any path
GetCalled ==
    /\ ~raised
    /\ \/ /\ event.name = "set"
          /\ event' = [event EXCEPT !.name = "get after set",
                                    !.got = get(cfg.config, event.path, Val(9))]
       \/ /\ event.name = "none"
          /\ \E path \in KeyPathsOf(MaxPath) :
               event' = [NoCall EXCEPT !.name = "get", !.path = path,
                                       !.got = get(cfg.config, path, Val(9))]
    /\ UNCHANGED <<cfg, effects, raised>>
    /\ UNCHANGED setOnly

NextSet ==
    \/ SetCalled
    \/ GetCalled

SpecSet == InitSet /\ [][NextSet]_vars

\* C18: for any key path k1..kn (n >= 1) and value v, in any configuration state,
\* set(k1, ..., kn, v) with auto_save false does not raise, writes no file and
\* notifies no daemon, and a following get(k1, ..., kn) returns v; get returns
\* the given default whenever a key of the path is missing
C18_SetThenGet ==
    /\ event.name = "set" /\ event.path # <<>> /\ ~event.auto_save
         => ~event.raised /\ effects = <<>>
    /\ event.name = "get after set" /\ event.path # <<>> => event.got = event.value
    /\ event.name = "get" /\ ~HasPath(cfg.config, event.path) => event.got = Val(9)

\* the configuration holds a number at "haptics" and set("haptics", "enabled", v)
\* has raised, leaving the configuration as it was
C18_SetRaised ==
    /\ event.name = "set"
    /\ event.path = <<"haptics", "enabled">>
    /\ ~event.auto_save
    /\ event.raised
    /\ get(cfg.config, <<"haptics">>, Val(9)) = Val(2)

-----------------------------------------------------------------------------
(* The cursor grabber with its clock (specification SpecGrab). Time is counted in
   tenths of a second; grab.file is the mtime of the activation file, or NoTime
   when there is none. event keeps, for the latest creation of the file, what
   the grabber did with it. *)

\* pointer coordinates as GTK hands them over (floats), in tenths of a pixel
GrabPoints == {<<0, 0>>, <<57, 129>>, <<52, 121>>}

\* int(x) of a coordinate that is not negative
to_int(x) == x \div 10

\* "Active for 500ms max"
ACTIVE_TENTHS == 5

\* the mtime of a file left behind before the grabber started
LeftOver == 0 - (ACTIVE_TENTHS + 1)

ShowMenuAt(x, y) == [op |-> "ShowMenu", arg |-> <<x, y>>]

is_active_any_age(g, t) == [active |-> g.file # NoTime, g |-> g]

\* is_active() at time t: the file exists and is younger than 500 ms; an older
\* one is unlinked
is_active_at(g, t) ==
    IF g.file = NoTime THEN [active |-> FALSE, g |-> g]
    ELSE IF t - g.file < ACTIVE_TENTHS THEN [active |-> TRUE, g |-> g]
    ELSE [active |-> FALSE, g |-> [g EXCEPT !.file = NoTime]]

BusOutcomes == {"ok", "no daemon", "call fails"}

\* get_proxy(): the cached proxy, or a new one where the daemon is on the bus
get_proxy(g, bus) ==
    LET have == g.proxy \/ bus # "no daemon"
    IN  [proxy |-> have, g |-> [g EXCEPT !.proxy = have]]

\* p = get_proxy(); if p: try p.ShowMenu(x, y) except: print
send_show_menu(g, bus, x, y) ==
    LET p == get_proxy(g, bus)
    IN  [g |-> p.g, eff |-> IF p.proxy /\ bus = "ok" THEN <<ShowMenuAt(x, y)>> ELSE <<>>]

\* _check_activation() at time t
check_activation_at(g, t, bus) ==
    LET a == is_active_at(g, t)
    IN  IF a.active /\ ~a.g.capturing
        THEN LET s == send_show_menu([a.g EXCEPT !.capturing = TRUE, !.file = NoTime],
                                     bus, g.cursor[1], g.cursor[2])
             IN  [g |-> [s.g EXCEPT !.capturing = FALSE], eff |-> s.eff]
        ELSE [g |-> a.g, eff |-> <<>>]

\* on_click(gesture, n_press, x, y) at time t
on_click_at(g, t, bus, x, y) ==
    LET a == is_active_at(g, t)
    IN  IF ~a.active THEN [g |-> a.g, eff |-> <<>>]
        ELSE send_show_menu([a.g EXCEPT !.capturing = FALSE, !.file = NoTime],
                            bus, to_int(x), to_int(y))

NoActivation == [name |-> "none", activated |-> FALSE, handled |-> FALSE, stale |-> FALSE,
                 tracked |-> <<0, 0>>, bus |-> "ok", shown |-> <<>>]

InitGrab ==
    /\ grab \in [file : {NoTime, LeftOver}, capturing : {FALSE}, cursor : {<<0, 0>>},
                 proxy : {FALSE}]
    /\ event = [NoActivation EXCEPT !.activated = grab.file # NoTime]
    /\ now = 0
    /\ effects = <<>>
    /\ raised = FALSE
    /\ cfg = NoCfg
    /\ menu = NewMenu
    /\ RADIAL_PARAMS = NoParams
    /\ config_file = ConfigDoc("missing", <<>>, FALSE, DEFAULT_THEME)
    /\ Actions = DEFAULT_ACTIONS
    /\ env = Desktop(FALSE, FALSE, FALSE, TRUE)

grabOnly == <<menu, Actions, RADIAL_PARAMS, config_file, raised, env, cfg>>

\* the daemon creates the activation file, or writes it again
GrabActivate ==
    /\ grab' = [grab EXCEPT !.file = now]
    /\ event' = [NoActivation EXCEPT !.name = "activate", !.activated = TRUE]
    /\ effects' = <<>>
    /\ UNCHANGED now
    /\ UNCHANGED grabOnly

\* _on_motion / _on_enter: the tracked position follows the pointer
GrabMotion ==
    /\ \E p \in GrabPoints : grab' = [grab EXCEPT !.cursor = <<to_int(p[1]), to_int(p[2])>>]
    /\ UNCHANGED <<event, effects, now>>
    /\ UNCHANGED grabOnly

\* what a handler that met the file adds to the record of the latest creation
Handling(name, bus, r) ==
    [event EXCEPT !.name = name,
                  !.bus = bus,
                  !.handled = @ \/ grab.file # NoTime,
                  !.stale = IF grab.file # NoTime THEN r.g.file = NoTime /\ ~(now - grab.file < ACTIVE_TENTHS) ELSE @,
                  !.tracked = IF grab.file # NoTime THEN grab.cursor ELSE @,
                  !.shown = @ \o [i \in 1..Len(r.eff) |-> r.eff[i].arg]]

\* the 10 ms timer runs _check_activation
GrabPoll ==
    /\ \E bus \in BusOutcomes :
         LET r == check_activation_at(grab, now, bus)
         IN  /\ grab' = r.g
             /\ effects' = r.eff
             /\ event' = Handling("_check_activation", bus, r)
    /\ UNCHANGED now
    /\ UNCHANGED grabOnly

\* a click reaches the grabber's window
GrabClick ==
    /\ \E bus \in BusOutcomes, p \in GrabPoints :
         LET r == on_click_at(grab, now, bus, p[1], p[2])
         IN  /\ grab' = r.g
             /\ effects' = r.eff
             /\ event' = Handling("on_click", bus, r)
    /\ UNCHANGED now
    /\ UNCHANGED grabOnly

\* a tenth of a second passes
GrabTick ==
    /\ now < MaxGrabTime
    /\ now' = now + 1
    /\ UNCHANGED <<grab, event, effects>>
    /\ UNCHANGED grabOnly

NextGrab ==
    \/ GrabActivate
    \/ GrabMotion
    \/ GrabPoll
    \/ GrabClick
    \/ GrabTick

SpecGrab == InitGrab /\ [][NextGrab]_vars

\* the file the handler meets is younger than 500 ms
Fresh == grab.file # NoTime /\ now - grab.file < ACTIVE_TENTHS

\* a step of the named handler (a tick moves now, a motion moves the cursor)
HandlerStep(name) == event'.name = name /\ now' = now /\ grab'.cursor = grab.cursor

\* what a handler sends for position pos under the outcome of the D-Bus call
SentFor(pos) ==
    /\ effects' \in {<<>>, <<ShowMenuAt(pos[1], pos[2])>>}
    /\ event'.bus = "ok" => effects' # <<>>

-----------------------------------------------------------------------------
(* overlay_actions.load_actions_from_config over the documents config.json can
   hold (specification SpecActs): the load at import, every later load of
   on_show, and the settings dashboard writing the file in between. *)

\* slices as the settings dashboard writes them
ActsSlices ==
    { [label |-> "Files", type |-> "exec", command |-> <<"dolphin">>],
      [label |-> "AI", type |-> "submenu", command |-> <<>>],
      [label |-> "Link", type |-> "url", command |-> <<"https://claude.ai">>] }

ActsSliceLists == UNION {[1..n -> ActsSlices] : n \in 0..MaxSlices} \cup {DEFAULT_SLICES}

\* config.json: missing, not to be opened, no JSON, no object, or an object
ActsFiles ==
    {ConfigDoc(k, <<>>, FALSE, DEFAULT_THEME) : k \in {"missing", "unreadable", "invalid", "list"}}
    \cup {ConfigDoc("object", sl, easy, DEFAULT_THEME) : sl \in ActsSliceLists, easy \in BOOLEAN}

\* the module-level ACTIONS = load_actions_from_config()
InitActs ==
    /\ config_file \in ActsFiles
    /\ Actions = load_actions_from_config(config_file)
    /\ event = NoEvent
    /\ RADIAL_PARAMS = NoParams
    /\ env = Desktop(FALSE, FALSE, FALSE, TRUE)
    /\ menu = NewMenu
    /\ now = 0
    /\ effects = <<>>
    /\ raised = FALSE
    /\ cfg = NoCfg
    /\ grab = NoGrab

actsOnly == <<menu, RADIAL_PARAMS, now, effects, raised, env, cfg, grab>>

\* the settings dashboard, or the user, writes config.json
ActsFileWritten ==
    /\ config_file' \in ActsFiles
    /\ event' = [name |-> "written"]
    /\ UNCHANGED Actions
    /\ UNCHANGED actsOnly

\* on_show: overlay_actions.ACTIONS = overlay_actions.load_actions_from_config()
ActsReload ==
    /\ Actions' = load_actions_from_config(config_file)
    /\ event' = [name |-> "load_actions_from_config"]
    /\ UNCHANGED config_file
    /\ UNCHANGED actsOnly

NextActs ==
    \/ ActsFileWritten
    \/ ActsReload

SpecActs == InitActs /\ [][NextActs]_vars

\* C20: load_actions_from_config returns DEFAULT_ACTIONS when config.json is
\* missing, cannot be read or parsed, or has no radial_menu slices; otherwise it
\* returns one action per configured slice, in the configured order, and an
\* action carries a submenu list exactly when its type is "submenu"
C20_ActionsFromConfig ==
    event.name # "written" =>
        IF config_file.kind # "object" \/ config_file.slices = <<>>
        THEN Actions = DEFAULT_ACTIONS
        ELSE /\ Len(Actions) = Len(config_file.slices)
             /\ \A i \in 1..Len(Actions) :
                  /\ Actions[i].cmd = config_file.slices[i].command
                  /\ Actions[i].submenu # NoSubmenu <=> Actions[i].type = "submenu"

\* config.json holds one slice, Files, and the load has returned the eight
\* default actions
C20_DefaultsDespiteSlices ==
    /\ event.name = "load_actions_from_config"
    /\ config_file.kind = "object"
    /\ Len(config_file.slices) = 1
    /\ config_file.slices[1].label = "Files"
    /\ Actions = DEFAULT_ACTIONS

-----------------------------------------------------------------------------
(* get_cursor_position_xwayland_synced, statement by statement (specification
   SpecSync). now is time.time() in milliseconds; cfg holds the locals of the
   call, _sync_window and whether the window is mapped; event keeps what
   _xquery_pointer answered during the call. *)

\* "350ms hard timeout", "120ms to detect change", "4ms poll"
HARD_TIMEOUT_MS == 350
CHANGE_MS == 120
POLL_MS == 4

\* what _xquery_pointer() answers: None, or the pointer's position
SyncReadings == {NoPos, <<30, 30>>, <<31, 30>>}

\* how long time.sleep(0.004) takes: 4 ms, or longer when the process waits
SleepTimes == {POLL_MS, POLL_MS + MaxOversleep}

NoSync == [name |-> "none", polls |-> 0, first_diff |-> NoPos, latest |-> NoPos]

InitSync ==
    /\ cfg \in [pc : {"call"}, HAS_XWAYLAND : BOOLEAN, init_xlib : BOOLEAN,
                sync_window : BOOLEAN, mapped : {FALSE}, stale_pos : {NoPos},
                fresh_pos : {NoPos}, changed : {FALSE}, deadline : {0},
                change_deadline : {0}, result : {NoPos}]
    /\ event = NoSync
    /\ now = 0
    /\ menu = NewMenu
    /\ RADIAL_PARAMS = NoParams
    /\ config_file = ConfigDoc("missing", <<>>, FALSE, DEFAULT_THEME)
    /\ Actions = DEFAULT_ACTIONS
    /\ env = Desktop(FALSE, FALSE, TRUE, TRUE)
    /\ effects = <<>>
    /\ raised = FALSE
    /\ grab = NoGrab

syncOnly == <<menu, Actions, RADIAL_PARAMS, config_file, effects, raised, env, grab>>

\* lines 337-395: the early returns, the window made once, the stale reading,
\* XMapWindow, the two deadlines
sync_enter(c, t, stale) ==
    IF ~c.HAS_XWAYLAND \/ ~c.init_xlib
    THEN [c EXCEPT !.pc = "done", !.result = NoPos]
    ELSE [c EXCEPT !.pc = "loop", !.sync_window = TRUE, !.stale_pos = stale,
                   !.mapped = TRUE, !.deadline = t + HARD_TIMEOUT_MS,
                   !.change_deadline = t + CHANGE_MS, !.fresh_pos = stale,
                   !.changed = FALSE]

sync_poll_keeps_stale(c, t, pos) ==
    IF pos = NoPos THEN c
    ELSE IF c.stale_pos # NoPos /\ pos # c.stale_pos
    THEN [c EXCEPT !.changed = TRUE, !.pc = "unmap"]
    ELSE IF ~c.changed /\ t >= c.change_deadline
    THEN [c EXCEPT !.fresh_pos = pos, !.pc = "unmap"]
    ELSE [c EXCEPT !.fresh_pos = pos]

\* lines 398-409, one pass of the loop body after the sleep; t is the time after it
sync_poll(c, t, pos) ==
    IF pos = NoPos THEN c
    ELSE IF c.stale_pos # NoPos /\ pos # c.stale_pos
    THEN [c EXCEPT !.fresh_pos = pos, !.changed = TRUE, !.pc = "unmap"]
    ELSE IF ~c.changed /\ t >= c.change_deadline
    THEN [c EXCEPT !.fresh_pos = pos, !.pc = "unmap"]
    ELSE [c EXCEPT !.fresh_pos = pos]

\* lines 411-416: XUnmapWindow, return fresh_pos
sync_return(c) == [c EXCEPT !.mapped = FALSE, !.result = c.fresh_pos, !.pc = "done"]

\* the call, up to the head of the loop
SyncEnter ==
    /\ cfg.pc = "call"
    /\ \E stale \in SyncReadings :
         /\ cfg' = sync_enter(cfg, now, stale)
         /\ event' = [NoSync EXCEPT !.name = "enter",
                                    !.latest = IF cfg'.pc = "loop" THEN stale ELSE NoPos]
    /\ UNCHANGED now
    /\ UNCHANGED syncOnly

\* while time.time() < deadline: sleep, query, decide
SyncPoll ==
    /\ cfg.pc = "loop"
    /\ now < cfg.deadline
    /\ \E d \in SleepTimes, pos \in SyncReadings :
         /\ now' = now + d
         /\ cfg' = sync_poll(cfg, now', pos)
         /\ event' = [event EXCEPT
                        !.name = "poll",
                        !.polls = @ + 1,
                        !.first_diff = IF @ = NoPos /\ pos # NoPos /\ pos # cfg.stale_pos
                                       THEN pos ELSE @,
                        !.latest = IF pos # NoPos THEN pos ELSE @]
    /\ UNCHANGED syncOnly

\* the loop is left, by break or by the hard timeout
SyncReturn ==
    /\ \/ cfg.pc = "unmap"
       \/ cfg.pc = "loop" /\ now >= cfg.deadline
    /\ cfg' = sync_return(cfg)
    /\ event' = [event EXCEPT !.name = "return"]
    /\ UNCHANGED now
    /\ UNCHANGED syncOnly

NextSync ==
    \/ SyncEnter
    \/ SyncPoll
    \/ SyncReturn

\* the function runs on: no statement of it waits for anything but the clock
SpecSync == InitSync /\ [][NextSync]_vars /\ WF_vars(NextSync)

\* the most passes the loop can make before the hard timeout
MostPolls == HARD_TIMEOUT_MS \div POLL_MS + 1

\* C21 (original): the function terminates; it returns the first reading that
\* differs from the stale reading taken before the sync window was mapped, or,
\* when no reading differs, the latest reading; the sync window is unmapped
\* when the function has returned
C21_FirstChangeOrLatest ==
    /\ event.polls <= MostPolls
    /\ cfg.pc = "done" =>
         /\ ~cfg.mapped
         /\ cfg.result = IF event.first_diff # NoPos THEN event.first_diff ELSE event.latest

\* what holds at every moment of the call
SyncReturnsChangeOrLatest ==
    /\ event.polls <= MostPolls
    /\ cfg.mapped => cfg.pc \in {"loop", "unmap"}
    /\ cfg.pc = "done" =>
         /\ ~cfg.mapped
         /\ cfg.result = IF cfg.stale_pos # NoPos /\ event.first_diff # NoPos
                         THEN event.first_diff ELSE event.latest

\* C21 (amended): the function terminates, after at most MostPolls passes of its
\* loop; it returns the first reading that differs from the stale reading when
\* the stale query gave a position, and else the latest reading that gave one
\* (None when none did); the sync window is mapped only inside the loop and is
\* unmapped when the function has returned
C21_TerminatesUnmapped == []SyncReturnsChangeOrLatest /\ <>(cfg.pc = "done")

\* the stale reading was (30, 30), a later poll read (31, 30) and the function
\* returned it, the window unmapped
C21_Witness ==
    /\ cfg.pc = "done"
    /\ cfg.stale_pos = <<30, 30>>
    /\ event.polls >= 2
    /\ event.first_diff = <<31, 30>>
    /\ cfg.result = <<31, 30>>
    /\ cfg.changed
    /\ ~cfg.mapped

=============================================================================
